---- MODULE Spec2Model ----
(***************************************************************************)
(* Note-taking client: the zustand notes store (src/store/notesStore.ts),  *)
(* the note editor with its debounced autosave                             *)
(* (src/components/NoteEditor.tsx, second component of the file), the      *)
(* page that selects the edited note (src/pages/Index.tsx) and the         *)
(* settings dialog (src/components/SettingsDialog.tsx).                    *)
(*                                                                         *)
(* Strings are sequences of one-character strings, so that trim() and      *)
(* `title || 'Untitled Note'` are computed.  Every await is a point where  *)
(* other handlers may run: a pending remote request is an element of reqs. *)
(* A handler, the re-render it causes and the effects of that render run   *)
(* to completion in one step (single-threaded event loop).                 *)
(***************************************************************************)
EXTENDS Integers, Sequences, FiniteSets, TLC

VARIABLES
    notes,           \* store: Note[] (notesStore.ts)
    folders,         \* store: Folder[]
    tags,            \* store: string[] (tag index)
    reqs,            \* remote requests awaiting their response
    settled,         \* how the last promise of a direct store call ended
    dbNoteSeq,       \* remote: note rows created so far (server ids)
    dbFolderSeq,     \* remote: folder rows created so far
    selectedNoteId,  \* Index.tsx state
    showEditor,      \* Index.tsx state: NoteEditor is mounted
    ed,              \* NoteEditor useState values
    timer,           \* NoteEditor autoSaveTimeoutRef: the pending setTimeout
    toast,           \* title of the notification shown last
    profile,         \* remote: the user's row of public.profiles
    settings,        \* SettingsDialog useState values
    db,              \* remote: rows of public.notes, in creation order
    dbFolders,       \* remote: rows of public.folders, in creation order
    user,            \* the session's user (auth.uid()), or NullUser
    clock,           \* the client's clock: new Date()
    dbClock,         \* the server's clock: now()
    isLoading,       \* store: isLoading
    lastSync,        \* store: lastSync
    searchQuery,     \* NotesList useState: the search field
    selectedTag,     \* NotesList useState: the tag filter, or NullTag
    sortBy,          \* NotesList useState: 'date' | 'title' | 'favorite'
    download         \* the file the browser was last given to save

vars == <<notes, folders, tags, reqs, settled, dbNoteSeq, dbFolderSeq,
          selectedNoteId, showEditor, ed, timer, toast, profile,
          settings, db, dbFolders, user, clock, dbClock, isLoading,
          lastSync, searchQuery, selectedTag, sortBy, download>>

storeVars == <<notes, folders, tags>>
editorVars == <<selectedNoteId, showEditor, ed, timer>>
profileVars == <<profile, settings>>
remoteVars == <<db, dbFolders>>
sessionVars == <<user, clock, dbClock, isLoading, lastSync>>
syncVars == <<db, dbFolders, user, clock, dbClock, isLoading, lastSync>>
listVars == <<searchQuery, selectedTag, sortBy>>
uiVars == <<searchQuery, selectedTag, sortBy, download>>

----------------------------------------------------------------------------
(* Bounds of the model *)

MaxNotes == 2
MaxFolders == 1
MaxInFlight == 2
TickMs == 15000
MaxClock == 1
MaxListed == 3

(* Program constants *)

AutoSaveDelay == 30000
DefaultAutoSaveInterval == 30

NullId == "null"
NullUser == "none"
NullTag == "null"
NoDownload == [saved |-> FALSE, name |-> <<>>, content |-> <<>>]
Users == {"u1", "u2"}
NoteIdPool == <<"n1", "n2", "n3", "n4">>
FolderIdPool == <<"f1", "f2", "f3">>

UntitledNote ==
    <<"U", "n", "t", "i", "t", "l", "e", "d", " ", "N", "o", "t", "e">>
DefaultFolderColor == "#3b82f6"

(* Input values *)

TitleValues == {<<>>, <<" ">>, <<"a">>}
ContentValues == {<<>>, <<"c">>}
TagValues == {"t"}
FolderNames == {"work"}
IntervalValues == {10, 30, 60}

----------------------------------------------------------------------------
(* String helpers *)

RECURSIVE TrimStart(_)
TrimStart(s) ==
    IF s = <<>> THEN s
    ELSE IF Head(s) = " " THEN TrimStart(Tail(s)) ELSE s

RECURSIVE TrimEnd(_)
TrimEnd(s) ==
    IF s = <<>> THEN s
    ELSE IF s[Len(s)] = " " THEN TrimEnd(SubSeq(s, 1, Len(s) - 1)) ELSE s

Trim(s) == TrimEnd(TrimStart(s))

(* Array.from(new Set(arr)): first occurrences, in order *)
RECURSIVE Dedupe(_)
Dedupe(s) ==
    IF s = <<>> THEN <<>>
    ELSE LET init == Dedupe(SubSeq(s, 1, Len(s) - 1))
             last == s[Len(s)]
         IN IF \E i \in 1..Len(init) : init[i] = last
            THEN init ELSE Append(init, last)

Includes(s, x) == \E i \in 1..Len(s) : s[i] = x

RECURSIVE Filter(_, _)
Filter(s, keep) ==
    IF s = <<>> THEN <<>>
    ELSE IF Head(s) \in keep THEN <<Head(s)>> \o Filter(Tail(s), keep)
         ELSE Filter(Tail(s), keep)

Elems(s) == {s[i] : i \in 1..Len(s)}

----------------------------------------------------------------------------
(* Remote rows, as the insert returns them *)

(* a row of public.notes as the insert creates it: a column the payload
   does not name takes its default, a key that is no column sets none *)
NoteRow(payload, id, uid, t) ==
    [id          |-> id,
     user_id     |-> uid,
     title       |-> IF "title" \in DOMAIN payload THEN payload.title
                     ELSE UntitledNote,
     content     |-> IF "content" \in DOMAIN payload THEN payload.content
                     ELSE <<>>,
     tags        |-> IF "tags" \in DOMAIN payload THEN payload.tags
                     ELSE <<>>,
     is_favorite |-> IF "is_favorite" \in DOMAIN payload
                     THEN payload.is_favorite ELSE FALSE,
     folder_id   |-> IF "folder_id" \in DOMAIN payload
                     THEN payload.folder_id ELSE NullId,
     created_at  |-> t,
     updated_at  |-> t,
     deleted     |-> FALSE]

(* the Note the store builds from a row *)
NoteOfRow(row) ==
    [id         |-> row.id,
     title      |-> row.title,
     content    |-> row.content,
     tags       |-> row.tags,
     isFavorite |-> row.is_favorite,
     folderId   |-> row.folder_id,
     createdAt  |-> row.created_at,
     updatedAt  |-> row.updated_at]

InsertNoteRow(payload, id) == NoteOfRow(NoteRow(payload, id, NullUser, dbClock))

FolderRow(payload, id, uid, t) ==
    [id         |-> id,
     user_id    |-> uid,
     name       |-> payload.name,
     color      |-> IF "color" \in DOMAIN payload THEN payload.color
                    ELSE DefaultFolderColor,
     created_at |-> t,
     deleted    |-> FALSE]

FolderOfRow(row) ==
    [id |-> row.id, name |-> row.name, color |-> row.color,
     createdAt |-> row.created_at]

InsertFolderRow(payload, id) ==
    FolderOfRow(FolderRow(payload, id, NullUser, dbClock))

(* what is left of a deleted row: its id and its owner *)
DeletedNoteRow(row) ==
    [NoteRow([title |-> <<>>], row.id, row.user_id, 0)
        EXCEPT !.deleted = TRUE]

DeletedFolderRow(row) ==
    [FolderRow([name |-> ""], row.id, row.user_id, 0)
        EXCEPT !.deleted = TRUE]

(* row-level security: USING (auth.uid() = user_id) *)
Visible(row, uid) == ~row.deleted /\ uid # NullUser /\ row.user_id = uid

(* update(...).eq('id', id): the columns the request names, and the
   handle_notes_updated_at trigger *)
DbUpdateNote(rows, id, updates, uid, t) ==
    [k \in 1..Len(rows) |->
        IF rows[k].id = id /\ Visible(rows[k], uid)
        THEN [rows[k] EXCEPT
                !.title = IF "title" \in DOMAIN updates
                          THEN updates.title ELSE @,
                !.content = IF "content" \in DOMAIN updates
                            THEN updates.content ELSE @,
                !.tags = IF "tags" \in DOMAIN updates
                         THEN updates.tags ELSE @,
                !.is_favorite = IF "isFavorite" \in DOMAIN updates
                                THEN updates.isFavorite ELSE @,
                !.folder_id = IF "folderId" \in DOMAIN updates
                              THEN updates.folderId ELSE @,
                !.updated_at = t]
        ELSE rows[k]]

DbDeleteNote(rows, id, uid) ==
    [k \in 1..Len(rows) |->
        IF rows[k].id = id /\ Visible(rows[k], uid)
        THEN DeletedNoteRow(rows[k]) ELSE rows[k]]

DbUpdateFolder(frows, id, updates, uid) ==
    [k \in 1..Len(frows) |->
        IF frows[k].id = id /\ Visible(frows[k], uid)
        THEN [frows[k] EXCEPT
                !.name = IF "name" \in DOMAIN updates
                         THEN updates.name ELSE @,
                !.color = IF "color" \in DOMAIN updates
                          THEN updates.color ELSE @]
        ELSE frows[k]]

DbDeleteFolder(frows, id, uid) ==
    [k \in 1..Len(frows) |->
        IF frows[k].id = id /\ Visible(frows[k], uid)
        THEN DeletedFolderRow(frows[k]) ELSE frows[k]]

(* notes_folder_id_fkey ... ON DELETE SET NULL, for the folders deleted
   between frows and frowsAfter *)
DbDetachNotes(rows, frows, frowsAfter, t) ==
    [k \in 1..Len(rows) |->
        IF \E j \in 1..Len(frows) :
              /\ frows[j].id = rows[k].folder_id
              /\ ~frows[j].deleted /\ frowsAfter[j].deleted
        THEN [rows[k] EXCEPT !.folder_id = NullId, !.updated_at = t]
        ELSE rows[k]]

----------------------------------------------------------------------------
(* Store: the local change each operation applies once its write succeeded *)

NoteIndex(id, ns) ==
    IF \E i \in 1..Len(ns) : ns[i].id = id
    THEN CHOOSE i \in 1..Len(ns) :
            ns[i].id = id /\ \A j \in 1..(i - 1) : ns[j].id # id
    ELSE 0

Merge(obj, updates) ==
    [k \in DOMAIN obj |-> IF k \in DOMAIN updates THEN updates[k] ELSE obj[k]]

(* mutant: the new note's tags are not added to the tag index *)
addNoteSetKeepsIndex(ns, tg, newNote) ==
    [notes |-> <<newNote>> \o ns, tags |-> tg]

addNoteSet(ns, tg, newNote) ==
    [notes |-> <<newNote>> \o ns,
     tags  |-> Dedupe(tg \o newNote.tags)]

(* mutant: the note takes the values the server holds, not those written *)
updateNoteSetFromRemote(ns, tg, id, updates) ==
    [notes |-> [i \in 1..Len(ns) |->
                   IF ns[i].id = id /\ \E j \in 1..Len(db) : db[j].id = id
                   THEN NoteOfRow(db[CHOOSE j \in 1..Len(db) : db[j].id = id])
                   ELSE ns[i]],
     tags  |-> Dedupe(tg \o (IF "tags" \in DOMAIN updates
                             THEN updates.tags ELSE <<>>))]

(* mutant: the tags written replace the tag index *)
updateNoteSetReplacesTags(ns, tg, id, updates) ==
    [notes |-> [i \in 1..Len(ns) |->
                   IF ns[i].id = id
                   THEN [Merge(ns[i], updates) EXCEPT !.updatedAt = clock]
                   ELSE ns[i]],
     tags  |-> IF "tags" \in DOMAIN updates THEN Dedupe(updates.tags) ELSE tg]

updateNoteSet(ns, tg, id, updates) ==
    [notes |-> [i \in 1..Len(ns) |->
                   IF ns[i].id = id
                   THEN [Merge(ns[i], updates) EXCEPT !.updatedAt = clock]
                   ELSE ns[i]],
     tags  |-> Dedupe(tg \o (IF "tags" \in DOMAIN updates
                             THEN updates.tags ELSE <<>>))]

deleteNoteSet(ns, id) ==
    Filter(ns, {ns[i] : i \in {j \in 1..Len(ns) : ns[j].id # id}})

addFolderSet(fs, newFolder) == Append(fs, newFolder)

updateFolderSet(fs, id, updates) ==
    [i \in 1..Len(fs) |->
        IF fs[i].id = id THEN Merge(fs[i], updates) ELSE fs[i]]

deleteFolderSet(fs, id) ==
    Filter(fs, {fs[i] : i \in {j \in 1..Len(fs) : fs[j].id # id}})

----------------------------------------------------------------------------
(* NoteEditor: one render and the effects it runs *)

InitialEd ==
    [title |-> <<>>, content |-> <<>>, tags |-> <<>>, isFavorite |-> FALSE,
     hasUnsavedChanges |-> FALSE, saving |-> FALSE]

NoTimer ==
    [armed |-> FALSE, remaining |-> 0, delay |-> 0,
     title |-> <<>>, content |-> <<>>, tags |-> <<>>, isFavorite |-> FALSE,
     noteId |-> NullId]

(* const currentNote = noteId ? notes.find(n => n.id === noteId) : null *)
HasCurrentNote(id, ns) == id # NullId /\ NoteIndex(id, ns) # 0
CurrentNote(id, ns) == ns[NoteIndex(id, ns)]
CurrentNoteKind(id, ns) ==
    IF id = NullId THEN "null"
    ELSE IF NoteIndex(id, ns) = 0 THEN "undefined" ELSE "note"

(* mutant: without the else branch that empties the fields *)
SeedEffectKeepsDraft(r, id, ns) ==
    IF HasCurrentNote(id, ns)
    THEN [r EXCEPT !.title = CurrentNote(id, ns).title,
                   !.content = CurrentNote(id, ns).content,
                   !.tags = CurrentNote(id, ns).tags,
                   !.isFavorite = CurrentNote(id, ns).isFavorite,
                   !.hasUnsavedChanges = FALSE]
    ELSE r

(* useEffect(..., [currentNote]) *)
SeedEffect(r, id, ns) ==
    IF HasCurrentNote(id, ns)
    THEN [r EXCEPT !.title = CurrentNote(id, ns).title,
                   !.content = CurrentNote(id, ns).content,
                   !.tags = CurrentNote(id, ns).tags,
                   !.isFavorite = CurrentNote(id, ns).isFavorite,
                   !.hasUnsavedChanges = FALSE]
    ELSE [r EXCEPT !.title = <<>>, !.content = <<>>, !.tags = <<>>,
                   !.isFavorite = FALSE, !.hasUnsavedChanges = FALSE]

(* useEffect(..., [title, content, tags, isFavorite, currentNote]) *)
HasChanges(r, id, ns) ==
    IF HasCurrentNote(id, ns)
    THEN \/ r.title # CurrentNote(id, ns).title
         \/ r.content # CurrentNote(id, ns).content
         \/ r.tags # CurrentNote(id, ns).tags
         \/ r.isFavorite # CurrentNote(id, ns).isFavorite
    ELSE Trim(r.title) # <<>> \/ Trim(r.content) # <<>>

(* useEffect(..., [hasUnsavedChanges, saving, title, content]): the cleanup
   of the previous run clears the timeout, then the timeout is set again with
   the handleSave of this render *)
AutoSaveEffect(r, id, ns) ==
    IF r.hasUnsavedChanges /\ ~r.saving
    THEN [armed |-> TRUE, remaining |-> AutoSaveDelay, delay |-> AutoSaveDelay,
          title |-> r.title, content |-> r.content, tags |-> r.tags,
          isFavorite |-> r.isFavorite,
          noteId |-> IF HasCurrentNote(id, ns) THEN id ELSE NullId]
    ELSE NoTimer

(* mutant: the fields are seeded on mount only *)
SeedDepsMountOnly(prev, cur, first, cnChanged) == first

SeedDeps(prev, cur, first, cnChanged) == first \/ cnChanged

DirtyDeps(prev, cur, first, cnChanged) ==
    \/ first
    \/ cnChanged
    \/ cur.title # prev.title
    \/ cur.content # prev.content
    \/ cur.tags # prev.tags
    \/ cur.isFavorite # prev.isFavorite

(* mutant: saving is not among the dependencies *)
AutoSaveDepsNoSaving(prev, cur, first) ==
    \/ first
    \/ cur.hasUnsavedChanges # prev.hasUnsavedChanges
    \/ cur.title # prev.title
    \/ cur.content # prev.content

AutoSaveDeps(prev, cur, first) ==
    \/ first
    \/ cur.hasUnsavedChanges # prev.hasUnsavedChanges
    \/ cur.saving # prev.saving
    \/ cur.title # prev.title
    \/ cur.content # prev.content

(* The effects of the render `cur` that follows the render `prev`; the state
   each effect sets is applied to the next render, in the effects' order *)
RunEffects(prev, cur, first, cnChanged, tm, id, ns) ==
    LET seeded == IF SeedDeps(prev, cur, first, cnChanged)
                  THEN SeedEffect(cur, id, ns) ELSE cur
        marked == IF DirtyDeps(prev, cur, first, cnChanged)
                  THEN [seeded EXCEPT
                          !.hasUnsavedChanges = HasChanges(cur, id, ns)]
                  ELSE seeded
    IN [ed    |-> marked,
        timer |-> IF AutoSaveDeps(prev, cur, first)
                  THEN AutoSaveEffect(cur, id, ns) ELSE tm]

(* Renders until no effect changes the state any more *)
RECURSIVE Settle(_, _, _, _, _, _, _)
Settle(prev, cur, first, cnChanged, tm, id, ns) ==
    LET r == RunEffects(prev, cur, first, cnChanged, tm, id, ns)
    IN IF r.ed = cur THEN r
       ELSE Settle(cur, r.ed, FALSE, FALSE, r.timer, id, ns)

----------------------------------------------------------------------------
(* Initial state: the store as created, the page with no editor shown *)

Init ==
    /\ notes = <<>>
    /\ folders = <<>>
    /\ tags = <<>>
    /\ reqs = <<>>
    /\ settled = [op |-> "none", status |-> "none"]
    /\ dbNoteSeq = 0
    /\ dbFolderSeq = 0
    /\ selectedNoteId = NullId
    /\ showEditor = FALSE
    /\ ed = InitialEd
    /\ timer = NoTimer
    /\ toast = "none"
    /\ profile = [exists |-> TRUE,
                  auto_save_interval |-> DefaultAutoSaveInterval]
    /\ settings = [isOpen |-> FALSE, loaded |-> FALSE,
                   autoSaveInterval |-> DefaultAutoSaveInterval]
    /\ db = <<>>
    /\ dbFolders = <<>>
    /\ user = "u1"
    /\ clock = 0
    /\ dbClock = 0
    /\ isLoading = FALSE
    /\ lastSync = [set |-> FALSE, at |-> 0]
    /\ searchQuery = <<>>
    /\ selectedTag = NullTag
    /\ sortBy = "date"
    /\ download = NoDownload

----------------------------------------------------------------------------
(* Calls of the store's asynchronous operations: the request each issues *)

Request(op, stage, id, data, src, showToast) ==
    [op |-> op, stage |-> stage, id |-> id, data |-> data, src |-> src,
     live |-> TRUE, showToast |-> showToast, user |-> NullUser]

addNote(noteData, src, showToast) ==
    Request("addNote", "getUser", NullId, noteData, src, showToast)

updateNote(id, updates, src, showToast) ==
    Request("updateNote", "write", id, updates, src, showToast)

deleteNote(id, src) ==
    Request("deleteNote", "write", id, <<>>, src, FALSE)

addFolder(folderData) ==
    Request("addFolder", "getUser", NullId, folderData, "api", FALSE)

updateFolder(id, updates) ==
    Request("updateFolder", "write", id, updates, "api", FALSE)

deleteFolder(id) ==
    Request("deleteFolder", "write", id, <<>>, "api", FALSE)

Pending(op) == Cardinality({i \in 1..Len(reqs) : reqs[i].op = op})

CanIssue(op) ==
    /\ Len(reqs) < MaxInFlight
    /\ op = "addNote" => dbNoteSeq + Pending("addNote") < MaxNotes
    /\ op = "addFolder" => dbFolderSeq + Pending("addFolder") < MaxFolders

RemoveAt(s, i) == SubSeq(s, 1, i - 1) \o SubSeq(s, i + 1, Len(s))

----------------------------------------------------------------------------
(* NoteEditor handlers *)

(* the values the handleSave of the current render closes over *)
RenderClosure ==
    [title |-> ed.title, content |-> ed.content, tags |-> ed.tags,
     isFavorite |-> ed.isFavorite, saving |-> ed.saving,
     noteId |-> IF HasCurrentNote(selectedNoteId, notes)
                THEN selectedNoteId ELSE NullId]

(* the values the pending timeout's handleSave closes over: those of the
   render that set the timeout, which had saving = false *)
TimerClosure ==
    [title |-> timer.title, content |-> timer.content, tags |-> timer.tags,
     isFavorite |-> timer.isFavorite, saving |-> FALSE,
     noteId |-> timer.noteId]

(* mutant: without the early return on saving *)
SavesNothingButBlank(c) ==
    Trim(c.title) = <<>> /\ Trim(c.content) = <<>>

(* handleSave's two early returns *)
SavesNothing(c) ==
    \/ Trim(c.title) = <<>> /\ Trim(c.content) = <<>>
    \/ c.saving

noteData(c) ==
    [title |-> IF c.title # <<>> THEN c.title ELSE UntitledNote,
     content |-> c.content, tags |-> c.tags, isFavorite |-> c.isFavorite]

SaveRequest(c, showToast) ==
    IF c.noteId # NullId
    THEN updateNote(c.noteId, noteData(c), "editor", showToast)
    ELSE addNote(noteData(c), "editor", showToast)

(* handleSave(showToast) up to its await; tm is the timeout still pending *)
handleSave(c, showToast, tm) ==
    IF SavesNothing(c)
    THEN /\ reqs' = reqs
         /\ ed' = ed
         /\ timer' = tm
    ELSE /\ CanIssue(SaveRequest(c, showToast).op)
         /\ reqs' = Append(reqs, SaveRequest(c, showToast))
         /\ LET r == Settle(ed, [ed EXCEPT !.saving = TRUE], FALSE, FALSE,
                            tm, selectedNoteId, notes)
            IN /\ ed' = r.ed
               /\ timer' = r.timer

(* a state change of the mounted editor, then its effects *)
Rerender(cur) ==
    LET r == Settle(ed, cur, FALSE, FALSE, timer, selectedNoteId, notes)
    IN /\ ed' = r.ed
       /\ timer' = r.timer

SetTitle(v) ==
    /\ showEditor
    /\ v # ed.title
    /\ Rerender([ed EXCEPT !.title = v])
    /\ UNCHANGED <<syncVars, storeVars, reqs, settled, dbNoteSeq, dbFolderSeq,
                   selectedNoteId, showEditor, toast, profileVars, uiVars>>

SetContent(v) ==
    /\ showEditor
    /\ v # ed.content
    /\ Rerender([ed EXCEPT !.content = v])
    /\ UNCHANGED <<syncVars, storeVars, reqs, settled, dbNoteSeq, dbFolderSeq,
                   selectedNoteId, showEditor, toast, profileVars, uiVars>>

handleAddTag(tagToAdd) ==
    /\ showEditor
    /\ ~Includes(ed.tags, tagToAdd)
    /\ Rerender([ed EXCEPT !.tags = Append(ed.tags, tagToAdd)])
    /\ UNCHANGED <<syncVars, storeVars, reqs, settled, dbNoteSeq, dbFolderSeq,
                   selectedNoteId, showEditor, toast, profileVars, uiVars>>

handleRemoveTag(tagToRemove) ==
    /\ showEditor
    /\ Includes(ed.tags, tagToRemove)
    /\ Rerender([ed EXCEPT !.tags = Filter(ed.tags,
                                           Elems(ed.tags) \ {tagToRemove})])
    /\ UNCHANGED <<syncVars, storeVars, reqs, settled, dbNoteSeq, dbFolderSeq,
                   selectedNoteId, showEditor, toast, profileVars, uiVars>>

ToggleFavorite ==
    /\ showEditor
    /\ Rerender([ed EXCEPT !.isFavorite = ~ed.isFavorite])
    /\ UNCHANGED <<syncVars, storeVars, reqs, settled, dbNoteSeq, dbFolderSeq,
                   selectedNoteId, showEditor, toast, profileVars, uiVars>>

(* the Save button: handleSave() with showToast = true *)
ClickSave ==
    /\ showEditor
    /\ handleSave(RenderClosure, TRUE, timer)
    /\ UNCHANGED <<syncVars, storeVars, settled, dbNoteSeq, dbFolderSeq,
                   selectedNoteId, showEditor, toast, profileVars, uiVars>>

(* time passes while a timeout is pending *)
Tick ==
    /\ timer.armed
    /\ timer.remaining > 0
    /\ timer' = [timer EXCEPT !.remaining =
                    IF timer.remaining > TickMs
                    THEN timer.remaining - TickMs ELSE 0]
    /\ UNCHANGED <<syncVars, storeVars, reqs, settled, dbNoteSeq, dbFolderSeq,
                   selectedNoteId, showEditor, ed, toast, profileVars,
                   uiVars>>

(* the timeout's callback *)
AutoSaveTimeout ==
    /\ timer.armed
    /\ timer.remaining = 0
    /\ IF Trim(timer.title) # <<>> \/ Trim(timer.content) # <<>>
       THEN handleSave(TimerClosure, FALSE, NoTimer)
       ELSE /\ timer' = NoTimer
            /\ UNCHANGED <<reqs, ed>>
    /\ UNCHANGED <<syncVars, storeVars, settled, dbNoteSeq, dbFolderSeq,
                   selectedNoteId, showEditor, toast, profileVars, uiVars>>

----------------------------------------------------------------------------
(* Index handlers *)

(* the editor when the page sets noteId to id *)
EditorFor(id, cnChanged) ==
    IF showEditor
    THEN Settle(ed, ed, FALSE, cnChanged, timer, id, notes)
    ELSE Settle(InitialEd, InitialEd, TRUE, FALSE, NoTimer, id, notes)

handleSelectNote(noteId) ==
    /\ Includes([i \in 1..Len(notes) |-> notes[i].id], noteId)
    /\ selectedNoteId' = noteId
    /\ showEditor' = TRUE
    /\ LET r == EditorFor(noteId, selectedNoteId # noteId)
       IN /\ ed' = r.ed
          /\ timer' = r.timer
    /\ UNCHANGED <<syncVars, storeVars, reqs, settled, dbNoteSeq, dbFolderSeq,
                   toast, profileVars, uiVars>>

handleCreateNote ==
    /\ selectedNoteId' = NullId
    /\ showEditor' = TRUE
    /\ LET r == EditorFor(NullId,
                          CurrentNoteKind(selectedNoteId, notes) # "null")
       IN /\ ed' = r.ed
          /\ timer' = r.timer
    /\ UNCHANGED <<syncVars, storeVars, reqs, settled, dbNoteSeq, dbFolderSeq,
                   toast, profileVars, uiVars>>

(* unmounting runs the auto-save effect's cleanup; the setState calls of a
   save still awaited no longer reach a component *)
handleCloseEditor ==
    /\ showEditor
    /\ showEditor' = FALSE
    /\ selectedNoteId' = NullId
    /\ ed' = InitialEd
    /\ timer' = NoTimer
    /\ reqs' = [i \in 1..Len(reqs) |->
                  IF reqs[i].src = "editor"
                  THEN [reqs[i] EXCEPT !.live = FALSE] ELSE reqs[i]]
    /\ UNCHANGED <<syncVars, storeVars, settled, dbNoteSeq, dbFolderSeq, toast,
                   profileVars, uiVars>>

(* Export menu of the editor: the text is handed to the browser as a file
   named after the title; nothing is sent and no state is set *)
ExportFormats == {"md", "txt", "pdf"}

(* mutant: the heading and the content are a single line break apart *)
ExportContentOneBreak(c, format) ==
    IF format = "md"
    THEN <<"#", " ">> \o c.title \o <<"\n">> \o c.content
    ELSE c.content

ExportContent(c, format) ==
    IF format = "md"
    THEN <<"#", " ">> \o c.title \o <<"\n", "\n">> \o c.content
    ELSE c.content

ExportFileName(c, format) ==
    (IF c.title # <<>> THEN c.title ELSE <<"n", "o", "t", "e">>)
        \o <<".", format>>

handleExport(format) ==
    /\ showEditor
    /\ download' = [saved |-> TRUE, name |-> ExportFileName(ed, format),
                    content |-> ExportContent(ed, format)]
    /\ toast' = "Note Exported"
    /\ UNCHANGED <<storeVars, reqs, settled, dbNoteSeq, dbFolderSeq,
                   editorVars, profileVars, syncVars, listVars>>

----------------------------------------------------------------------------
(* NoteContextMenu handlers (Index.tsx, second component of the file) *)

handleToggleFavorite(i) ==
    /\ i \in 1..Len(notes)
    /\ CanIssue("updateNote")
    /\ reqs' = Append(reqs, updateNote(notes[i].id,
                                       [isFavorite |-> ~notes[i].isFavorite],
                                       "menu", FALSE))
    /\ UNCHANGED <<syncVars, storeVars, settled, dbNoteSeq, dbFolderSeq,
                   editorVars, toast, profileVars, uiVars>>

handleDelete(i) ==
    /\ i \in 1..Len(notes)
    /\ CanIssue("deleteNote")
    /\ reqs' = Append(reqs, deleteNote(notes[i].id, "menu"))
    /\ UNCHANGED <<syncVars, storeVars, settled, dbNoteSeq, dbFolderSeq,
                   editorVars, toast, profileVars, uiVars>>

----------------------------------------------------------------------------
(* What the caller awaiting a store operation does once it settles *)

(* the toast of the caller's try or catch branch *)
ToastAfter(req, ok) ==
    IF req.src = "editor"
    THEN IF ok THEN (IF req.showToast THEN "Note Saved" ELSE toast)
         ELSE "Save Failed"
    ELSE IF req.src = "menu" /\ req.op = "updateNote"
    THEN IF ok THEN (IF req.data.isFavorite THEN "Added to favorites"
                     ELSE "Removed from favorites")
         ELSE "Error"
    ELSE IF req.src = "menu" /\ req.op = "deleteNote"
    THEN IF ok THEN "Note Deleted" ELSE "Delete Failed"
    ELSE toast

(* mutant: setHasUnsavedChanges(false) moved to the finally block *)
AfterSaveClearsDirty(r, ok) ==
    [r EXCEPT !.hasUnsavedChanges = FALSE, !.saving = FALSE]

(* mutant: without the finally block *)
AfterSaveNoFinally(r, ok) ==
    IF ok THEN [r EXCEPT !.hasUnsavedChanges = FALSE] ELSE r

(* handleSave after its await: try branch, catch branch, finally *)
AfterSave(r, ok) ==
    IF ok THEN [r EXCEPT !.hasUnsavedChanges = FALSE, !.saving = FALSE]
    ELSE [r EXCEPT !.saving = FALSE]

(* The mounted editor after the store's notes became ns (cnChanged: the
   object currentNote refers to was replaced or removed), followed by the
   continuation of the handleSave that awaited req *)
EditorAfter(req, ok, ns, cnChanged) ==
    IF ~showEditor THEN [ed |-> ed, timer |-> timer]
    ELSE LET r1 == Settle(ed, ed, FALSE, cnChanged, timer,
                          selectedNoteId, ns)
         IN IF req.src = "editor" /\ req.live
            THEN Settle(r1.ed, AfterSave(r1.ed, ok), FALSE, FALSE, r1.timer,
                        selectedNoteId, ns)
            ELSE r1

Settles(i, ok, ns, cnChanged) ==
    /\ reqs' = RemoveAt(reqs, i)
    /\ settled' = IF reqs[i].src = "api"
                  THEN [op |-> reqs[i].op,
                        status |-> IF ok THEN "resolved" ELSE "rejected"]
                  ELSE settled
    /\ toast' = ToastAfter(reqs[i], ok)
    /\ LET r == EditorAfter(reqs[i], ok, ns, cnChanged)
       IN /\ ed' = r.ed
          /\ timer' = r.timer

IsStoreOp(op) ==
    op \in {"addNote", "updateNote", "deleteNote",
            "addFolder", "updateFolder", "deleteFolder"}

----------------------------------------------------------------------------
(* Responses of the remote store *)

(* supabase.auth.getUser() of addNote and addFolder answers *)
GetUserDone(i, ok) ==
    /\ i \in 1..Len(reqs)
    /\ IsStoreOp(reqs[i].op)
    /\ reqs[i].stage = "getUser"
    /\ ok => user # NullUser
    /\ IF ok
       THEN /\ reqs' = [reqs EXCEPT ![i].stage = "write", ![i].user = user]
            /\ UNCHANGED <<settled, ed, timer, toast>>
       ELSE Settles(i, FALSE, notes, FALSE)
    /\ UNCHANGED <<syncVars, storeVars, dbNoteSeq, dbFolderSeq, selectedNoteId,
                   showEditor, profileVars, uiVars>>

(* the remote store takes the write of req without an error: an insert
   must pass WITH CHECK (auth.uid() = user_id), a folder_id must reference
   a folder; an update or delete that matches no visible row is no error *)
RemoteAccepts(req) ==
    /\ req.op \in {"addNote", "addFolder"} =>
          (user # NullUser /\ req.user = user)
    /\ (req.op = "updateNote" /\ "folderId" \in DOMAIN req.data) =>
          \/ req.data.folderId = NullId
          \/ \E j \in 1..Len(dbFolders) :
                dbFolders[j].id = req.data.folderId /\ ~dbFolders[j].deleted

(* the remote rows after the write of req *)
DbAfter(req) ==
    CASE req.op = "addNote" ->
           [db |-> Append(db, NoteRow(req.data, NoteIdPool[dbNoteSeq + 1],
                                      req.user, dbClock)),
            dbFolders |-> dbFolders]
      [] req.op = "updateNote" ->
           [db |-> DbUpdateNote(db, req.id, req.data, user, dbClock),
            dbFolders |-> dbFolders]
      [] req.op = "deleteNote" ->
           [db |-> DbDeleteNote(db, req.id, user), dbFolders |-> dbFolders]
      [] req.op = "addFolder" ->
           [db |-> db,
            dbFolders |-> Append(dbFolders,
                            FolderRow(req.data, FolderIdPool[dbFolderSeq + 1],
                                      req.user, dbClock))]
      [] req.op = "updateFolder" ->
           [db |-> db,
            dbFolders |-> DbUpdateFolder(dbFolders, req.id, req.data, user)]
      [] req.op = "deleteFolder" ->
           [db |-> DbDetachNotes(db, dbFolders,
                                 DbDeleteFolder(dbFolders, req.id, user),
                                 dbClock),
            dbFolders |-> DbDeleteFolder(dbFolders, req.id, user)]

(* the local state after the write of req succeeded *)
StoreAfter(req) ==
    CASE req.op = "addNote" ->
           LET s == addNoteSet(notes, tags,
                      IF req.stage = "committed" THEN NoteOfRow(req.data)
                      ELSE InsertNoteRow(req.data,
                                         NoteIdPool[dbNoteSeq + 1]))
           IN [notes |-> s.notes, tags |-> s.tags, folders |-> folders]
      [] req.op = "updateNote" ->
           LET s == updateNoteSet(notes, tags, req.id, req.data)
           IN [notes |-> s.notes, tags |-> s.tags, folders |-> folders]
      [] req.op = "deleteNote" ->
           [notes |-> deleteNoteSet(notes, req.id), tags |-> tags,
            folders |-> folders]
      [] req.op = "addFolder" ->
           [notes |-> notes, tags |-> tags,
            folders |-> addFolderSet(folders,
                          InsertFolderRow(req.data,
                                          FolderIdPool[dbFolderSeq + 1]))]
      [] req.op = "updateFolder" ->
           [notes |-> notes, tags |-> tags,
            folders |-> updateFolderSet(folders, req.id, req.data)]
      [] req.op = "deleteFolder" ->
           [notes |-> notes, tags |-> tags,
            folders |-> deleteFolderSet(folders, req.id)]

(* mutant: the local change is applied before the error is looked at *)
WriteFailsAfterSet(i) ==
    /\ i \in 1..Len(reqs)
    /\ IsStoreOp(reqs[i].op)
    /\ reqs[i].stage = "write"
    /\ notes' = StoreAfter(reqs[i]).notes
    /\ tags' = StoreAfter(reqs[i]).tags
    /\ folders' = StoreAfter(reqs[i]).folders
    /\ Settles(i, FALSE, notes, FALSE)
    /\ UNCHANGED <<syncVars, dbNoteSeq, dbFolderSeq, selectedNoteId, showEditor,
                   profileVars, uiVars>>

(* the write answers with an error: `if (error) throw error` *)
WriteFails(i) ==
    /\ i \in 1..Len(reqs)
    /\ IsStoreOp(reqs[i].op)
    /\ reqs[i].stage = "write"
    /\ Settles(i, FALSE, notes, FALSE)
    /\ UNCHANGED <<syncVars, storeVars, dbNoteSeq, dbFolderSeq, selectedNoteId,
                   showEditor, profileVars, uiVars>>

(* updateNote's map and deleteNote's filter replace or remove the object
   the editor's currentNote refers to *)
ReplacesCurrentNote(req) ==
    /\ req.op \in {"updateNote", "deleteNote"}
    /\ req.id = selectedNoteId
    /\ HasCurrentNote(selectedNoteId, notes)

(* the update of an updateNote is applied on the server; its answer is on
   its way while other requests are served *)
RemoteCommits(i) ==
    /\ i \in 1..Len(reqs)
    /\ reqs[i].op = "updateNote"
    /\ reqs[i].stage = "write"
    /\ RemoteAccepts(reqs[i])
    /\ db' = DbAfter(reqs[i]).db
    /\ reqs' = [reqs EXCEPT ![i].stage = "committed"]
    /\ UNCHANGED <<storeVars, settled, dbNoteSeq, dbFolderSeq, editorVars,
                   toast, profileVars, dbFolders, sessionVars, uiVars>>

(* the insert of an addNote is applied on the server, which answers with
   the row inserted (.select().single()); the answer is on its way while
   other requests are served *)
RemoteInserts(i) ==
    /\ i \in 1..Len(reqs)
    /\ reqs[i].op = "addNote"
    /\ reqs[i].stage = "write"
    /\ RemoteAccepts(reqs[i])
    /\ db' = DbAfter(reqs[i]).db
    /\ dbNoteSeq' = dbNoteSeq + 1
    /\ reqs' = [reqs EXCEPT
                  ![i].stage = "committed",
                  ![i].data = NoteRow(reqs[i].data, NoteIdPool[dbNoteSeq + 1],
                                      reqs[i].user, dbClock)]
    /\ UNCHANGED <<storeVars, settled, dbFolderSeq, editorVars, toast,
                   profileVars, dbFolders, sessionVars, uiVars>>

(* the write succeeds: set(...) is applied, then the promise resolves *)
WriteSucceeds(i) ==
    /\ i \in 1..Len(reqs)
    /\ IsStoreOp(reqs[i].op)
    /\ reqs[i].stage \in {"write", "committed"}
    /\ reqs[i].stage = "write" => RemoteAccepts(reqs[i])
    /\ db' = IF reqs[i].stage = "write" THEN DbAfter(reqs[i]).db ELSE db
    /\ dbFolders' = IF reqs[i].stage = "write"
                    THEN DbAfter(reqs[i]).dbFolders ELSE dbFolders
    /\ notes' = StoreAfter(reqs[i]).notes
    /\ tags' = StoreAfter(reqs[i]).tags
    /\ folders' = StoreAfter(reqs[i]).folders
    /\ dbNoteSeq' = IF reqs[i].op = "addNote" /\ reqs[i].stage = "write"
                    THEN dbNoteSeq + 1 ELSE dbNoteSeq
    /\ dbFolderSeq' = IF reqs[i].op = "addFolder" THEN dbFolderSeq + 1
                      ELSE dbFolderSeq
    /\ Settles(i, TRUE, StoreAfter(reqs[i]).notes,
               ReplacesCurrentNote(reqs[i]))
    /\ UNCHANGED <<selectedNoteId, showEditor, profileVars, sessionVars,
                   uiVars>>

----------------------------------------------------------------------------
(* Direct calls of the store's operations *)

NoteDataValues ==
    {[title |-> <<"a">>, content |-> <<>>, tags |-> tg, isFavorite |-> FALSE]
        : tg \in {<<>>, <<"t">>}}

NoteUpdateValues ==
    {[isFavorite |-> TRUE], [tags |-> <<"u">>]}

FolderDataValues ==
    {[name |-> n] : n \in FolderNames}

FolderUpdateValues == {[color |-> "#ff0000"]}

(* updates that file a note in a folder *)
NoteFolderValues ==
    {[folderId |-> FolderIdPool[j]] : j \in 1..MaxFolders}

(* notes with a tag and the favorite flag set *)
TaggedNoteValues ==
    {[title |-> <<"a">>, content |-> <<>>, tags |-> <<"t">>,
      isFavorite |-> f] : f \in BOOLEAN}

CallAddNote(data) ==
    /\ CanIssue("addNote")
    /\ reqs' = Append(reqs, addNote(data, "api", FALSE))
    /\ UNCHANGED <<syncVars, storeVars, settled, dbNoteSeq, dbFolderSeq,
                   editorVars, toast, profileVars, uiVars>>

CallUpdateNote(id, updates) ==
    /\ CanIssue("updateNote")
    /\ reqs' = Append(reqs, updateNote(id, updates, "api", FALSE))
    /\ UNCHANGED <<syncVars, storeVars, settled, dbNoteSeq, dbFolderSeq,
                   editorVars, toast, profileVars, uiVars>>

CallDeleteNote(id) ==
    /\ CanIssue("deleteNote")
    /\ reqs' = Append(reqs, deleteNote(id, "api"))
    /\ UNCHANGED <<syncVars, storeVars, settled, dbNoteSeq, dbFolderSeq,
                   editorVars, toast, profileVars, uiVars>>

CallAddFolder(data) ==
    /\ CanIssue("addFolder")
    /\ reqs' = Append(reqs, addFolder(data))
    /\ UNCHANGED <<syncVars, storeVars, settled, dbNoteSeq, dbFolderSeq,
                   editorVars, toast, profileVars, uiVars>>

CallUpdateFolder(id, updates) ==
    /\ CanIssue("updateFolder")
    /\ reqs' = Append(reqs, updateFolder(id, updates))
    /\ UNCHANGED <<syncVars, storeVars, settled, dbNoteSeq, dbFolderSeq,
                   editorVars, toast, profileVars, uiVars>>

CallDeleteFolder(id) ==
    /\ CanIssue("deleteFolder")
    /\ reqs' = Append(reqs, deleteFolder(id))
    /\ UNCHANGED <<syncVars, storeVars, settled, dbNoteSeq, dbFolderSeq,
                   editorVars, toast, profileVars, uiVars>>

----------------------------------------------------------------------------
(* fetchNotes and fetchFolders: the store's reads of the remote store *)

(* .order(column): a stable insertion of row r into the ordered rows; rows
   the order does not tell apart stay in table order *)
ComesBefore(r, q, column, ascending) ==
    IF ascending THEN r[column] < q[column] ELSE r[column] > q[column]

RECURSIVE InsertOrdered(_, _, _, _)
InsertOrdered(sorted, r, column, ascending) ==
    IF sorted = <<>> THEN <<r>>
    ELSE IF ComesBefore(r, Head(sorted), column, ascending)
         THEN <<r>> \o sorted
         ELSE <<Head(sorted)>>
                \o InsertOrdered(Tail(sorted), r, column, ascending)

RECURSIVE OrderBy(_, _, _)
OrderBy(rows, column, ascending) ==
    IF rows = <<>> THEN <<>>
    ELSE InsertOrdered(
            OrderBy(SubSeq(rows, 1, Len(rows) - 1), column, ascending),
            rows[Len(rows)], column, ascending)

RECURSIVE VisibleRows(_, _)
VisibleRows(rows, uid) ==
    IF rows = <<>> THEN <<>>
    ELSE IF Visible(Head(rows), uid)
         THEN <<Head(rows)>> \o VisibleRows(Tail(rows), uid)
         ELSE VisibleRows(Tail(rows), uid)

(* mutant: without .order(...) *)
SelectNotesUnordered == VisibleRows(db, user)

(* from('notes').select('*').order('updated_at', { ascending: false }) *)
SelectNotes == OrderBy(VisibleRows(db, user), "updated_at", FALSE)

(* from('folders').select('*').order('created_at', { ascending: true }) *)
SelectFolders == OrderBy(VisibleRows(dbFolders, user), "created_at", TRUE)

(* notes.flatMap((note) => note.tags) *)
RECURSIVE FlatTags(_)
FlatTags(ns) ==
    IF ns = <<>> THEN <<>> ELSE Head(ns).tags \o FlatTags(Tail(ns))

(* mutant: the tags of the fetched notes are added to the tags held *)
fetchNotesSetKeepsTags(rows) ==
    LET fetched == [k \in 1..Len(rows) |-> NoteOfRow(rows[k])]
    IN [notes |-> fetched, tags |-> Dedupe(tags \o FlatTags(fetched))]

(* mutant: a note the store holds is kept as the store holds it *)
fetchNotesSetKeepsLocal(rows) ==
    LET fetched == [k \in 1..Len(rows) |->
                      IF NoteIndex(rows[k].id, notes) # 0
                      THEN notes[NoteIndex(rows[k].id, notes)]
                      ELSE NoteOfRow(rows[k])]
    IN [notes |-> fetched, tags |-> Dedupe(FlatTags(fetched))]

(* mutant: the notes returned are added to the notes held *)
fetchNotesSetAppends(rows) ==
    LET fetched == [k \in 1..Len(rows) |-> NoteOfRow(rows[k])]
    IN [notes |-> notes \o fetched, tags |-> Dedupe(FlatTags(fetched))]

(* the state fetchNotes sets from the rows returned *)
fetchNotesSet(rows) ==
    LET fetched == [k \in 1..Len(rows) |-> NoteOfRow(rows[k])]
    IN [notes |-> fetched, tags |-> Dedupe(FlatTags(fetched))]

fetchFoldersSet(rows) == [k \in 1..Len(rows) |-> FolderOfRow(rows[k])]

(* fetchNotes up to its await *)
fetchNotes(src) == Request("fetchNotes", "read", NullId, <<>>, src, FALSE)

fetchFolders(src) == Request("fetchFolders", "read", NullId, <<>>, src, FALSE)

CallFetchNotes ==
    /\ CanIssue("fetchNotes")
    /\ isLoading' = TRUE
    /\ reqs' = Append(reqs, fetchNotes("api"))
    /\ UNCHANGED <<storeVars, settled, dbNoteSeq, dbFolderSeq, editorVars,
                   toast, profileVars, remoteVars, user, clock, dbClock,
                   lastSync, uiVars>>

CallFetchFolders ==
    /\ CanIssue("fetchFolders")
    /\ reqs' = Append(reqs, fetchFolders("api"))
    /\ UNCHANGED <<storeVars, settled, dbNoteSeq, dbFolderSeq, editorVars,
                   toast, profileVars, syncVars, uiVars>>

(* a syncNotes that starts both reads at once *)
handleSyncParallel ==
    /\ CanIssue("fetchNotes")
    /\ isLoading' = TRUE
    /\ reqs' = reqs \o << fetchNotes("api"), fetchFolders("sync") >>
    /\ UNCHANGED <<storeVars, settled, dbNoteSeq, dbFolderSeq, editorVars,
                   toast, profileVars, remoteVars, user, clock, dbClock,
                   lastSync, uiVars>>

(* NotesList.handleSync up to its await: syncNotes awaits fetchNotes *)
handleSync ==
    /\ CanIssue("fetchNotes")
    /\ isLoading' = TRUE
    /\ reqs' = Append(reqs, fetchNotes("sync"))
    /\ UNCHANGED <<storeVars, settled, dbNoteSeq, dbFolderSeq, editorVars,
                   toast, profileVars, remoteVars, user, clock, dbClock,
                   lastSync, uiVars>>

(* the fetched array holds new objects: the editor's currentNote changes
   whenever it was or becomes a note *)
FetchReplacesCurrentNote(ns) ==
    /\ selectedNoteId # NullId
    /\ HasCurrentNote(selectedNoteId, notes) \/ HasCurrentNote(selectedNoteId, ns)

(* the select of fetchNotes answers; fetchNotes returns either way, and
   syncNotes goes on to fetchFolders *)
(* the select of a fetchNotes runs on the server; its answer is on its way
   while other requests are served *)
RemoteReads(i) ==
    /\ i \in 1..Len(reqs)
    /\ reqs[i].op = "fetchNotes"
    /\ reqs[i].stage = "read"
    /\ reqs' = [reqs EXCEPT ![i].stage = "answer", ![i].data = SelectNotes]
    /\ UNCHANGED <<storeVars, settled, dbNoteSeq, dbFolderSeq, editorVars,
                   toast, profileVars, syncVars, uiVars>>

(* the rows the answer of a fetchNotes carries: those read when the select
   ran, or those of this moment when it runs as the answer is delivered *)
RowsRead(req) == IF req.stage = "answer" THEN req.data ELSE SelectNotes

FetchNotesDone(i, ok) ==
    /\ i \in 1..Len(reqs)
    /\ reqs[i].op = "fetchNotes"
    /\ LET got == fetchNotesSet(RowsRead(reqs[i]))
           ns == IF ok THEN got.notes ELSE notes
           r == EditorAfter(reqs[i], ok, ns,
                            ok /\ FetchReplacesCurrentNote(got.notes))
       IN /\ notes' = ns
          /\ tags' = IF ok THEN got.tags ELSE tags
          /\ lastSync' = IF ok THEN [set |-> TRUE, at |-> clock]
                          ELSE lastSync
          /\ ed' = r.ed
          /\ timer' = r.timer
    /\ isLoading' = FALSE
    /\ reqs' = IF reqs[i].src = "sync"
               THEN [reqs EXCEPT ![i] = fetchFolders("sync")]
               ELSE RemoveAt(reqs, i)
    /\ settled' = IF reqs[i].src = "api"
                  THEN [op |-> "fetchNotes", status |-> "resolved"]
                  ELSE settled
    /\ UNCHANGED <<folders, dbNoteSeq, dbFolderSeq, selectedNoteId,
                   showEditor, toast, profileVars, remoteVars, user, clock,
                   dbClock, uiVars>>

(* the select of fetchFolders answers; fetchFolders returns either way, and
   handleSync, awaiting syncNotes, goes on in its try block *)
FetchFoldersDone(i, ok) ==
    /\ i \in 1..Len(reqs)
    /\ reqs[i].op = "fetchFolders"
    /\ folders' = IF ok THEN fetchFoldersSet(SelectFolders) ELSE folders
    /\ reqs' = RemoveAt(reqs, i)
    /\ toast' = IF reqs[i].src = "sync" THEN "Sync Complete" ELSE toast
    /\ settled' = IF reqs[i].src = "api"
                  THEN [op |-> "fetchFolders", status |-> "resolved"]
                  ELSE settled
    /\ UNCHANGED <<notes, tags, dbNoteSeq, dbFolderSeq, editorVars,
                   profileVars, syncVars, uiVars>>

(* time passes on the client and on the server *)
ClientTick ==
    /\ clock < MaxClock
    /\ clock' = clock + 1
    /\ UNCHANGED <<storeVars, reqs, settled, dbNoteSeq, dbFolderSeq,
                   editorVars, toast, profileVars, remoteVars, user,
                   dbClock, isLoading, lastSync, uiVars>>

ServerTick ==
    /\ dbClock < MaxClock
    /\ dbClock' = dbClock + 1
    /\ UNCHANGED <<storeVars, reqs, settled, dbNoteSeq, dbFolderSeq,
                   editorVars, toast, profileVars, remoteVars, user,
                   clock, isLoading, lastSync, uiVars>>

----------------------------------------------------------------------------
(* SettingsDialog: the profile row and the auto-save interval field *)

ProfileRequest(op, data) ==
    Request(op, "write", NullId, data, "settings", FALSE)

(* opening the dialog runs the effect that calls fetchProfile *)
OpenSettings ==
    /\ ~settings.isOpen
    /\ CanIssue("fetchProfile")
    /\ settings' = [settings EXCEPT !.isOpen = TRUE]
    /\ reqs' = Append(reqs, ProfileRequest("fetchProfile", <<>>))
    /\ UNCHANGED <<syncVars, storeVars, settled, dbNoteSeq, dbFolderSeq,
                   editorVars, toast, profile, uiVars>>

CloseSettings ==
    /\ settings.isOpen
    /\ settings' = [settings EXCEPT !.isOpen = FALSE]
    /\ UNCHANGED <<syncVars, storeVars, reqs, settled, dbNoteSeq, dbFolderSeq,
                   editorVars, toast, profile, uiVars>>

(* select('*').eq('id', user.id).single() answers: an error (always, when
   the user has no row) makes fetchProfile await createProfile *)
FetchProfileDone(i, ok) ==
    /\ i \in 1..Len(reqs)
    /\ reqs[i].op = "fetchProfile"
    /\ ok => profile.exists
    /\ IF ok
       THEN /\ settings' = [settings EXCEPT
                  !.loaded = TRUE,
                  !.autoSaveInterval =
                      IF profile.auto_save_interval # 0
                      THEN profile.auto_save_interval
                      ELSE DefaultAutoSaveInterval]
            /\ reqs' = RemoveAt(reqs, i)
       ELSE /\ settings' = settings
            /\ reqs' = [reqs EXCEPT ![i] =
                          ProfileRequest("createProfile",
                              [auto_save_interval |->
                                  DefaultAutoSaveInterval])]
    /\ UNCHANGED <<syncVars, storeVars, settled, dbNoteSeq, dbFolderSeq,
                   editorVars, toast, profile, uiVars>>

(* the insert of createProfile answers: the primary key rejects a second
   row for the user *)
CreateProfileDone(i, ok) ==
    /\ i \in 1..Len(reqs)
    /\ reqs[i].op = "createProfile"
    /\ ok => ~profile.exists
    /\ reqs' = RemoveAt(reqs, i)
    /\ IF ok
       THEN /\ profile' = [exists |-> TRUE,
                           auto_save_interval |->
                               reqs[i].data.auto_save_interval]
            /\ settings' = [settings EXCEPT
                  !.loaded = TRUE,
                  !.autoSaveInterval = reqs[i].data.auto_save_interval]
       ELSE UNCHANGED <<profile, settings>>
    /\ UNCHANGED <<syncVars, storeVars, settled, dbNoteSeq, dbFolderSeq,
                   editorVars, toast, uiVars>>

setAutoSaveInterval(v) ==
    /\ settings.isOpen
    /\ v # settings.autoSaveInterval
    /\ settings' = [settings EXCEPT !.autoSaveInterval = v]
    /\ UNCHANGED <<syncVars, storeVars, reqs, settled, dbNoteSeq, dbFolderSeq,
                   editorVars, toast, profile, uiVars>>

(* updateProfile up to its await *)
updateProfile ==
    /\ settings.isOpen
    /\ settings.loaded
    /\ CanIssue("updateProfile")
    /\ reqs' = Append(reqs, ProfileRequest("updateProfile",
                  [auto_save_interval |-> settings.autoSaveInterval]))
    /\ UNCHANGED <<syncVars, storeVars, settled, dbNoteSeq, dbFolderSeq,
                   editorVars, toast, profileVars, uiVars>>

UpdateProfileDone(i, ok) ==
    /\ i \in 1..Len(reqs)
    /\ reqs[i].op = "updateProfile"
    /\ reqs' = RemoveAt(reqs, i)
    /\ toast' = IF ok THEN "Success" ELSE "Error"
    /\ profile' = IF ok /\ profile.exists
                  THEN [profile EXCEPT !.auto_save_interval =
                           reqs[i].data.auto_save_interval]
                  ELSE profile
    /\ UNCHANGED <<syncVars, storeVars, settled, dbNoteSeq, dbFolderSeq,
                   editorVars, settings, uiVars>>

----------------------------------------------------------------------------
(* The session: useAuth, and what Index renders for it *)

InitialSettings ==
    [isOpen |-> FALSE, loaded |-> FALSE,
     autoSaveInterval |-> DefaultAutoSaveInterval]

(* the requests still awaited once Index renders the sign-in page: the
   components are unmounted, so the answers of the dialog's profile requests
   reach nothing, and a save of the editor no longer sets its state *)
AfterUnmount(rs) ==
    LET kept == Filter(rs, {rs[i] : i \in {j \in 1..Len(rs) :
                                             rs[j].src # "settings"}})
    IN [i \in 1..Len(kept) |->
          IF kept[i].src = "editor"
          THEN [kept[i] EXCEPT !.live = FALSE] ELSE kept[i]]

(* the Sign Out button of the dialog, signOut returning no error: the
   session ends and Index renders the sign-in page in place of the header,
   the list and the editor. The store is left as it is. *)
handleSignOut ==
    /\ user # NullUser
    /\ settings.isOpen
    /\ user' = NullUser
    /\ toast' = "Signed Out"
    /\ settings' = InitialSettings
    /\ ed' = InitialEd
    /\ timer' = NoTimer
    /\ reqs' = AfterUnmount(reqs)
    /\ UNCHANGED <<storeVars, settled, dbNoteSeq, dbFolderSeq, selectedNoteId,
                   showEditor, profile, remoteVars, clock, dbClock, isLoading,
                   lastSync, uiVars>>

(* a user signs in on the sign-in page: Index renders the application again,
   NotesList mounts and its effect calls fetchNotes; the editor, if Index
   still shows one, mounts with new state *)
SignIn(u) ==
    /\ user = NullUser
    /\ CanIssue("fetchNotes")
    /\ user' = u
    /\ isLoading' = TRUE
    /\ reqs' = Append(reqs, fetchNotes("api"))
    /\ LET r == IF showEditor
                THEN Settle(InitialEd, InitialEd, TRUE, FALSE, NoTimer,
                            selectedNoteId, notes)
                ELSE [ed |-> InitialEd, timer |-> NoTimer]
       IN /\ ed' = r.ed
          /\ timer' = r.timer
    /\ UNCHANGED <<storeVars, settled, dbNoteSeq, dbFolderSeq, selectedNoteId,
                   showEditor, toast, profileVars, remoteVars, clock, dbClock,
                   lastSync, uiVars>>

----------------------------------------------------------------------------
(* NotesList: the filtered and sorted list the component renders *)

(* String.prototype.toLowerCase, on the letters the model uses *)
LowerOf(c) ==
    CASE c = "A" -> "a"
      [] c = "B" -> "b"
      [] OTHER -> c

toLowerCase(s) == [i \in 1..Len(s) |-> LowerOf(s[i])]

(* String.prototype.includes *)
StrIncludes(s, sub) ==
    \E i \in 0..(Len(s) - Len(sub)) : SubSeq(s, i + 1, i + Len(sub)) = sub

(* String.prototype.localeCompare on letters and the space: the strings are
   compared letter by letter without regard to case, and strings equal in
   that are compared by case, the lower-case letter first *)
PrimaryKey(c) ==
    CASE c = " " -> 0
      [] LowerOf(c) = "a" -> 1
      [] LowerOf(c) = "b" -> 2
      [] OTHER -> 3

CaseKey(c) == IF LowerOf(c) = c THEN 0 ELSE 1

RECURSIVE CompareKeys(_, _)
CompareKeys(ka, kb) ==
    IF ka = <<>> /\ kb = <<>> THEN 0
    ELSE IF ka = <<>> THEN -1
    ELSE IF kb = <<>> THEN 1
    ELSE IF Head(ka) < Head(kb) THEN -1
    ELSE IF Head(ka) > Head(kb) THEN 1
    ELSE CompareKeys(Tail(ka), Tail(kb))

localeCompare(a, b) ==
    LET primary == CompareKeys([i \in 1..Len(a) |-> PrimaryKey(a[i])],
                               [i \in 1..Len(b) |-> PrimaryKey(b[i])])
    IN IF primary # 0 THEN primary
       ELSE CompareKeys([i \in 1..Len(a) |-> CaseKey(a[i])],
                        [i \in 1..Len(b) |-> CaseKey(b[i])])

(* mutant: the search compares the strings as they are *)
MatchesFilterCaseSensitive(note, query, tag) ==
    LET matchesSearch ==
            \/ StrIncludes(note.title, query)
            \/ StrIncludes(note.content, query)
        matchesTag == tag = NullTag \/ Includes(note.tags, tag)
    IN matchesSearch /\ matchesTag

(* the callback of notes.filter *)
MatchesFilter(note, query, tag) ==
    LET matchesSearch ==
            \/ StrIncludes(toLowerCase(note.title), toLowerCase(query))
            \/ StrIncludes(toLowerCase(note.content), toLowerCase(query))
        matchesTag == tag = NullTag \/ Includes(note.tags, tag)
    IN matchesSearch /\ matchesTag

(* mutant: the dates are subtracted the other way round *)
CompareNotesOldestFirst(a, b, by) ==
    IF by = "favorite" /\ a.isFavorite /\ ~b.isFavorite THEN -1
    ELSE IF by = "favorite" /\ ~a.isFavorite /\ b.isFavorite THEN 1
    ELSE IF by = "title" THEN localeCompare(a.title, b.title)
    ELSE a.updatedAt - b.updatedAt

(* the comparator of .sort *)
CompareNotes(a, b, by) ==
    IF by = "favorite" /\ a.isFavorite /\ ~b.isFavorite THEN -1
    ELSE IF by = "favorite" /\ ~a.isFavorite /\ b.isFavorite THEN 1
    ELSE IF by = "title" THEN localeCompare(a.title, b.title)
    ELSE b.updatedAt - a.updatedAt

(* Array.prototype.filter: a new array, the elements kept in order *)
RECURSIVE ArrayFilter(_, _, _)
ArrayFilter(ns, query, tag) ==
    IF ns = <<>> THEN <<>>
    ELSE IF MatchesFilter(Head(ns), query, tag)
         THEN <<Head(ns)>> \o ArrayFilter(Tail(ns), query, tag)
         ELSE ArrayFilter(Tail(ns), query, tag)

(* Array.prototype.sort is stable: an element goes behind those that do not
   compare greater than it *)
RECURSIVE InsertSorted(_, _, _)
InsertSorted(sorted, x, by) ==
    IF sorted = <<>> THEN <<x>>
    ELSE IF CompareNotes(Head(sorted), x, by) <= 0
         THEN <<Head(sorted)>> \o InsertSorted(Tail(sorted), x, by)
         ELSE <<x>> \o sorted

RECURSIVE ArraySort(_, _)
ArraySort(ns, by) ==
    IF ns = <<>> THEN <<>>
    ELSE InsertSorted(ArraySort(SubSeq(ns, 1, Len(ns) - 1), by),
                      ns[Len(ns)], by)

(* mutant: notes.sort(...).filter(...), the sort ordering the store's array *)
RenderSortsStore(ns, query, tag, by) ==
    [notes |-> ArraySort(ns, by),
     filteredNotes |-> ArrayFilter(ArraySort(ns, by), query, tag)]

(* const filteredNotes = notes.filter(...).sort(...): filter returns a new
   array, which sort orders in place; notes is the store's array after it *)
Render(ns, query, tag, by) ==
    [notes |-> ns,
     filteredNotes |-> ArraySort(ArrayFilter(ns, query, tag), by)]

filteredNotes == Render(notes, searchQuery, selectedTag, sortBy).filteredNotes

(* the store's searchNotes: a filter over title, content and tags *)
searchNotes(ns, query) ==
    LET hit(n) ==
          \/ StrIncludes(toLowerCase(n.title), toLowerCase(query))
          \/ StrIncludes(toLowerCase(n.content), toLowerCase(query))
          \/ \E k \in 1..Len(n.tags) :
                StrIncludes(toLowerCase(<<n.tags[k]>>), toLowerCase(query))
    IN [notes |-> ns,
        found |-> Filter(ns, {ns[i] : i \in {j \in 1..Len(ns) : hit(ns[j])}})]

QueryValues == {<<>>, <<"A">>, <<"b">>}

(* typing in the search field; the component renders again *)
setSearchQuery(q) ==
    /\ q # searchQuery
    /\ searchQuery' = q
    /\ notes' = Render(notes, q, selectedTag, sortBy).notes
    /\ UNCHANGED <<folders, tags, reqs, settled, dbNoteSeq, dbFolderSeq,
                   editorVars, toast, profileVars, syncVars, selectedTag,
                   sortBy, download>>

(* a click on a tag badge selects it, a click on the selected one or on
   All clears the filter; the component renders again *)
setSelectedTag(t) ==
    /\ t = NullTag \/ Includes(tags, t)
    /\ LET next == IF selectedTag = t THEN NullTag ELSE t
       IN /\ next # selectedTag
          /\ selectedTag' = next
          /\ notes' = Render(notes, searchQuery, next, sortBy).notes
    /\ UNCHANGED <<folders, tags, reqs, settled, dbNoteSeq, dbFolderSeq,
                   editorVars, toast, profileVars, syncVars, searchQuery,
                   sortBy, download>>

(* a direct call of the store's searchNotes *)
CallSearchNotes(q) ==
    /\ notes' = searchNotes(notes, q).notes
    /\ settled' = [op |-> "searchNotes", status |-> "resolved"]
    /\ UNCHANGED <<folders, tags, reqs, dbNoteSeq, dbFolderSeq, editorVars,
                   toast, profileVars, syncVars, uiVars>>

----------------------------------------------------------------------------
(* Specifications *)

RemoteAnswers ==
    \/ \E i \in 1..MaxInFlight, ok \in BOOLEAN : GetUserDone(i, ok)
    \/ \E i \in 1..MaxInFlight : WriteFails(i)
    \/ \E i \in 1..MaxInFlight : WriteSucceeds(i)

(* the editor, kept mounted, with the store behind it *)
Next ==
    \/ \E v \in TitleValues : SetTitle(v)
    \/ \E t \in TagValues : handleAddTag(t)
    \/ \E t \in TagValues : handleRemoveTag(t)
    \/ ToggleFavorite
    \/ ClickSave
    \/ Tick
    \/ AutoSaveTimeout
    \/ \E id \in Elems(NoteIdPool) : handleSelectNote(id)
    \/ handleCreateNote
    \/ RemoteAnswers

Spec == Init /\ [][Next]_vars

(* the editor opened and closed (mounted and unmounted) *)
NextUnmount ==
    \/ \E v \in TitleValues : SetTitle(v)
    \/ \E t \in TagValues : handleAddTag(t)
    \/ \E t \in TagValues : handleRemoveTag(t)
    \/ ClickSave
    \/ Tick
    \/ AutoSaveTimeout
    \/ \E id \in Elems(NoteIdPool) : handleSelectNote(id)
    \/ handleCreateNote
    \/ handleCloseEditor
    \/ RemoteAnswers

SpecUnmount == Init /\ [][NextUnmount]_vars

(* the store called directly, no editor *)
NextStore ==
    \/ \E d \in NoteDataValues : CallAddNote(d)
    \/ \E i \in 1..MaxNotes, u \in NoteUpdateValues :
          CallUpdateNote(NoteIdPool[i], u)
    \/ \E i \in 1..MaxNotes : CallDeleteNote(NoteIdPool[i])
    \/ \E d \in FolderDataValues : CallAddFolder(d)
    \/ \E i \in 1..MaxFolders, u \in FolderUpdateValues :
          CallUpdateFolder(FolderIdPool[i], u)
    \/ \E i \in 1..MaxFolders : CallDeleteFolder(FolderIdPool[i])
    \/ RemoteAnswers

SpecStore == Init /\ [][NextStore]_vars

(* the store fetching what its writes left in the remote store *)
NextSync ==
    \/ \E d \in TaggedNoteValues : CallAddNote(d)
    \/ \E i \in 1..MaxNotes, u \in NoteUpdateValues :
          CallUpdateNote(NoteIdPool[i], u)
    \/ \E i \in 1..MaxNotes : CallDeleteNote(NoteIdPool[i])
    \/ CallFetchNotes
    \/ \E i \in 1..MaxInFlight, ok \in BOOLEAN : FetchNotesDone(i, ok)
    \/ ClientTick
    \/ ServerTick
    \/ RemoteAnswers

SpecSync == Init /\ [][NextSync]_vars

(* notes and folders made, then sign-out and sign-in as either user *)
NextAuth ==
    \/ \E d \in TaggedNoteValues : CallAddNote(d)
    \/ \E d \in FolderDataValues : CallAddFolder(d)
    \/ OpenSettings
    \/ \E i \in 1..MaxInFlight, ok \in BOOLEAN : FetchProfileDone(i, ok)
    \/ \E i \in 1..MaxInFlight, ok \in BOOLEAN : CreateProfileDone(i, ok)
    \/ handleSignOut
    \/ \E u \in Users : SignIn(u)
    \/ \E i \in 1..MaxInFlight, ok \in BOOLEAN : FetchNotesDone(i, ok)
    \/ RemoteAnswers

SpecAuth == Init /\ [][NextAuth]_vars

(* the store's six writing operations called before and after sign-out;
   the dialog's profile request is still awaited when Sign Out is clicked *)
NextSignedOut ==
    \/ \E d \in TaggedNoteValues : CallAddNote(d)
    \/ \E i \in 1..MaxNotes, u \in NoteUpdateValues :
          CallUpdateNote(NoteIdPool[i], u)
    \/ \E i \in 1..MaxNotes : CallDeleteNote(NoteIdPool[i])
    \/ \E d \in FolderDataValues : CallAddFolder(d)
    \/ \E i \in 1..MaxFolders, u \in FolderUpdateValues :
          CallUpdateFolder(FolderIdPool[i], u)
    \/ \E i \in 1..MaxFolders : CallDeleteFolder(FolderIdPool[i])
    \/ OpenSettings
    \/ handleSignOut
    \/ RemoteAnswers

SpecSignedOut == Init /\ [][NextSignedOut]_vars

(* the operations that report to the user: the Sync button, the settings
   dialog and the editor's Save *)
NextNotify ==
    \/ handleSync
    \/ \E i \in 1..MaxInFlight, ok \in BOOLEAN : FetchNotesDone(i, ok)
    \/ \E i \in 1..MaxInFlight, ok \in BOOLEAN : FetchFoldersDone(i, ok)
    \/ OpenSettings
    \/ CloseSettings
    \/ \E i \in 1..MaxInFlight, ok \in BOOLEAN : FetchProfileDone(i, ok)
    \/ \E i \in 1..MaxInFlight, ok \in BOOLEAN : CreateProfileDone(i, ok)
    \/ updateProfile
    \/ \E i \in 1..MaxInFlight, ok \in BOOLEAN : UpdateProfileDone(i, ok)
    \/ handleCreateNote
    \/ \E v \in TitleValues : SetTitle(v)
    \/ ClickSave
    \/ RemoteAnswers

SpecNotify == Init /\ [][NextNotify]_vars

(* notes filed in folders, folders deleted, the list fetched again *)
NextFolder ==
    \/ \E d \in NoteDataValues : CallAddNote(d)
    \/ \E d \in FolderDataValues : CallAddFolder(d)
    \/ \E i \in 1..MaxNotes, u \in NoteFolderValues :
          CallUpdateNote(NoteIdPool[i], u)
    \/ \E i \in 1..MaxFolders : CallDeleteFolder(FolderIdPool[i])
    \/ CallFetchNotes
    \/ \E i \in 1..MaxInFlight, ok \in BOOLEAN : FetchNotesDone(i, ok)
    \/ RemoteAnswers

SpecFolder == Init /\ [][NextFolder]_vars

(* The list view over a store that holds up to MaxListed notes of the user,
   in any order: titles that differ in case and length, a content, a tag,
   the favorite flag and the time of the last update vary *)
ListedValues ==
    {[title |-> t, content |-> c.content, tags |-> c.tags,
      isFavorite |-> f, updatedAt |-> u] :
        t \in {<<"a">>, <<"A", "b">>},
        c \in {[content |-> <<>>, tags |-> <<>>],
               [content |-> <<"b">>, tags |-> <<"t">>]},
        f \in BOOLEAN,
        u \in 0..MaxClock}

ListedNote(k, v) ==
    [id |-> NoteIdPool[k], title |-> v.title, content |-> v.content,
     tags |-> v.tags, isFavorite |-> v.isFavorite, folderId |-> NullId,
     createdAt |-> 0, updatedAt |-> v.updatedAt]

RowOfNote(n, uid) ==
    [id |-> n.id, user_id |-> uid, title |-> n.title, content |-> n.content,
     tags |-> n.tags, is_favorite |-> n.isFavorite, folder_id |-> n.folderId,
     created_at |-> n.createdAt, updated_at |-> n.updatedAt,
     deleted |-> FALSE]

InitList ==
    /\ \E len \in 0..MaxListed :
          \E vs \in [1..len -> ListedValues] :
              notes = [k \in 1..len |-> ListedNote(k, vs[k])]
    /\ folders = <<>>
    /\ tags = Dedupe(FlatTags(notes))
    /\ reqs = <<>>
    /\ settled = [op |-> "none", status |-> "none"]
    /\ dbNoteSeq = Len(notes)
    /\ dbFolderSeq = 0
    /\ selectedNoteId = NullId
    /\ showEditor = FALSE
    /\ ed = InitialEd
    /\ timer = NoTimer
    /\ toast = "none"
    /\ profile = [exists |-> TRUE,
                  auto_save_interval |-> DefaultAutoSaveInterval]
    /\ settings = InitialSettings
    /\ db = [k \in 1..Len(notes) |-> RowOfNote(notes[k], "u1")]
    /\ dbFolders = <<>>
    /\ user = "u1"
    /\ clock = MaxClock
    /\ dbClock = MaxClock
    /\ isLoading = FALSE
    /\ lastSync = [set |-> TRUE, at |-> MaxClock]
    /\ searchQuery = <<>>
    /\ selectedTag = NullTag
    /\ sortBy \in {"date", "title", "favorite"}
    /\ download = NoDownload

NextList ==
    \/ \E q \in QueryValues : setSearchQuery(q)
    \/ \E t \in {NullTag} \cup TagValues : setSelectedTag(t)
    \/ \E q \in QueryValues : CallSearchNotes(q)

SpecList == InitList /\ [][NextList]_vars

(* the editor's title and content typed, saved and exported *)
NextExport ==
    \/ \E v \in TitleValues : SetTitle(v)
    \/ \E v \in ContentValues : SetContent(v)
    \/ \E f \in ExportFormats : handleExport(f)
    \/ ClickSave
    \/ Tick
    \/ AutoSaveTimeout
    \/ handleSelectNote(NoteIdPool[1])
    \/ handleCreateNote
    \/ RemoteAnswers

SpecExport == Init /\ [][NextExport]_vars

(* updates of one note and fetches whose requests are served by the server
   and answered to the client at different moments *)
OverlapUpdateValues == {[isFavorite |-> f] : f \in BOOLEAN}

NextOverlap ==
    \/ \E d \in TaggedNoteValues : ~d.isFavorite /\ CallAddNote(d)
    \/ \E u \in OverlapUpdateValues : CallUpdateNote(NoteIdPool[1], u)
    \/ CallFetchNotes
    \/ \E i \in 1..MaxInFlight : RemoteReads(i)
    \/ \E i \in 1..MaxInFlight : RemoteCommits(i)
    \/ \E i \in 1..MaxInFlight, ok \in BOOLEAN : FetchNotesDone(i, ok)
    \/ ClientTick
    \/ RemoteAnswers

SpecOverlap == Init /\ [][NextOverlap]_vars

(* a draft in the editor while the store's notes change under it: a save
   answered, the list fetched again, the favorite flag toggled from the
   note's context menu *)
NextDraft ==
    \/ \E v \in TitleValues : SetTitle(v)
    \/ ClickSave
    \/ handleSelectNote(NoteIdPool[1])
    \/ handleCreateNote
    \/ handleToggleFavorite(1)
    \/ CallFetchNotes
    \/ \E i \in 1..MaxInFlight, ok \in BOOLEAN : FetchNotesDone(i, ok)
    \/ RemoteAnswers

SpecDraft == Init /\ [][NextDraft]_vars

(* one editor session in create-new mode: the editor is opened by New Note
   and neither closed nor pointed at a note; New Note clicked again leaves
   noteId null and the mounted editor as it is *)
NextCreate ==
    \/ \E v \in TitleValues : SetTitle(v)
    \/ \E v \in ContentValues : SetContent(v)
    \/ ClickSave
    \/ Tick
    \/ AutoSaveTimeout
    \/ handleCreateNote
    \/ RemoteAnswers

SpecCreate == Init /\ [][NextCreate]_vars

(* notes added, deleted and fetched while other requests are in flight:
   the server serves a read or an insert at one moment, the store applies
   its answer at another *)
NextRace ==
    \/ \E d \in TaggedNoteValues : CallAddNote(d)
    \/ \E u \in NoteUpdateValues : CallUpdateNote(NoteIdPool[1], u)
    \/ CallDeleteNote(NoteIdPool[1])
    \/ CallFetchNotes
    \/ \E i \in 1..MaxInFlight : RemoteReads(i)
    \/ \E i \in 1..MaxInFlight : RemoteInserts(i)
    \/ \E i \in 1..MaxInFlight, ok \in BOOLEAN : FetchNotesDone(i, ok)
    \/ RemoteAnswers

SpecRace == Init /\ [][NextRace]_vars

(* the settings dialog next to an editor in create-new mode; the user may
   have no profile row yet *)
InitProfile ==
    /\ notes = <<>>
    /\ folders = <<>>
    /\ tags = <<>>
    /\ reqs = <<>>
    /\ settled = [op |-> "none", status |-> "none"]
    /\ dbNoteSeq = 0
    /\ dbFolderSeq = 0
    /\ selectedNoteId = NullId
    /\ showEditor = FALSE
    /\ ed = InitialEd
    /\ timer = NoTimer
    /\ toast = "none"
    /\ profile \in {[exists |-> e,
                     auto_save_interval |-> DefaultAutoSaveInterval]
                       : e \in BOOLEAN}
    /\ settings = [isOpen |-> FALSE, loaded |-> FALSE,
                   autoSaveInterval |-> DefaultAutoSaveInterval]
    /\ db = <<>>
    /\ dbFolders = <<>>
    /\ user = "u1"
    /\ clock = 0
    /\ dbClock = 0
    /\ isLoading = FALSE
    /\ lastSync = [set |-> FALSE, at |-> 0]
    /\ searchQuery = <<>>
    /\ selectedTag = NullTag
    /\ sortBy = "date"
    /\ download = NoDownload

NextProfile ==
    \/ OpenSettings
    \/ CloseSettings
    \/ \E i \in 1..MaxInFlight, ok \in BOOLEAN : FetchProfileDone(i, ok)
    \/ \E i \in 1..MaxInFlight, ok \in BOOLEAN : CreateProfileDone(i, ok)
    \/ \E v \in IntervalValues : setAutoSaveInterval(v)
    \/ updateProfile
    \/ \E i \in 1..MaxInFlight, ok \in BOOLEAN : UpdateProfileDone(i, ok)
    \/ handleCreateNote
    \/ \E v \in TitleValues : SetTitle(v)
    \/ Tick
    \/ AutoSaveTimeout
    \/ RemoteAnswers

SpecProfile == InitProfile /\ [][NextProfile]_vars

(* the editor's two text fields, title and content, typed into *)
NextText ==
    \/ \E v \in TitleValues : SetTitle(v)
    \/ \E v \in ContentValues : SetContent(v)
    \/ ClickSave
    \/ Tick
    \/ AutoSaveTimeout
    \/ \E id \in Elems(NoteIdPool) : handleSelectNote(id)
    \/ handleCreateNote
    \/ RemoteAnswers

SpecText == Init /\ [][NextText]_vars

(* the same editor with a remote store that answers every request in the
   end: each await of supabase settles *)
SpecTextLive == Init /\ [][NextText]_vars /\ WF_vars(RemoteAnswers)

----------------------------------------------------------------------------
(* Claims *)

Fields(r) ==
    [title |-> r.title, content |-> r.content, tags |-> r.tags,
     isFavorite |-> r.isFavorite]

NonBlank(r) == Trim(r.title) # <<>> \/ Trim(r.content) # <<>>

(* the writes the mounted editor awaits *)
LiveEditorWrites ==
    {i \in 1..Len(reqs) : reqs[i].src = "editor" /\ reqs[i].live}

(* a promise of the store settles in this step *)
SettlesNow == Len(reqs') < Len(reqs)

(* C1: for addNote, updateNote, deleteNote, addFolder, updateFolder and
   deleteFolder, a write the remote store answers with an error rejects the
   operation's promise and leaves notes, folders and tags as they were; the
   three change only in a step in which a write has succeeded and its promise
   resolves. *)
C1_WriteThrough ==
    [][ /\ \A i \in 1..Len(reqs) :
              WriteFails(i) =>
                  /\ settled' = [op |-> reqs[i].op, status |-> "rejected"]
                  /\ UNCHANGED storeVars
        /\ (SettlesNow /\ settled'.status = "rejected")
              => UNCHANGED storeVars
        /\ storeVars' # storeVars =>
              \E i \in 1..Len(reqs) :
                  /\ reqs[i].stage = "write"
                  /\ reqs' = RemoveAt(reqs, i)
                  /\ settled' = [op |-> reqs[i].op, status |-> "resolved"]
      ]_vars

C1_Witness ==
    /\ settled = [op |-> "updateNote", status |-> "rejected"]
    /\ Len(notes) > 0
    /\ tags # <<>>
    /\ Len(folders) > 0

(* C2: when the write of a save the editor awaits fails, the draft (title,
   content, tags, favorite flag) stays as edited, saving is false again and
   hasUnsavedChanges is what it was (true for a dirty draft), the "Save
   Failed" notification is shown, the store's notes are untouched, and the
   write can be issued again: a dirty draft has a fresh timeout over the
   draft as it is now, and handleSave is no longer blocked by saving. *)
C2_SaveFailureKeepsDraft ==
    [][ \A i \in LiveEditorWrites :
          (WriteFails(i) \/ GetUserDone(i, FALSE)) =>
              /\ Fields(ed') = Fields(ed)
              /\ ~ed'.saving
              /\ ed'.hasUnsavedChanges = ed.hasUnsavedChanges
              /\ toast' = "Save Failed"
              /\ notes' = notes
              /\ ed'.hasUnsavedChanges =>
                    /\ timer'.armed
                    /\ timer'.remaining = AutoSaveDelay
                    /\ Fields(timer') = Fields(ed')
      ]_vars

(* after a failure, the debounce expiry has issued the write again *)
C2_Witness ==
    /\ toast = "Save Failed"
    /\ ed.hasUnsavedChanges
    /\ ed.saving
    /\ \E i \in LiveEditorWrites : ~reqs[i].showToast

(* the note the editor shows, or the empty note in create-new mode *)
Snapshot ==
    IF HasCurrentNote(selectedNoteId, notes)
    THEN Fields(CurrentNote(selectedNoteId, notes))
    ELSE Fields(InitialEd)

(* the note a handleSave of the current render would write to *)
Target ==
    IF HasCurrentNote(selectedNoteId, notes) THEN selectedNoteId ELSE NullId

(* C3 as stated: whenever the timeout of a dirty editor with no save in
   flight expires, exactly one save request is issued, never zero. *)
C3_Original ==
    [][ (AutoSaveTimeout /\ ed.hasUnsavedChanges /\ ~ed.saving) =>
            Len(reqs') = Len(reqs) + 1 ]_vars

(* C3, amended: a dirty editor with no save in flight whose title or content
   is not blank has a timeout pending over its current title and content;
   the expiry of a timeout over a non-blank title or content issues exactly
   one save request, without a notification, carrying the title and content
   the timeout was set with, and leaves no timeout pending while that save
   is in flight; the expiry of a timeout over a blank title and a blank
   content issues no request. *)
C3_AutoSaveOnce ==
    /\ [](/\ (showEditor /\ ed.hasUnsavedChanges /\ ~ed.saving /\ NonBlank(ed))
                => /\ timer.armed
                   /\ timer.title = ed.title
                   /\ timer.content = ed.content
          /\ ed.saving => ~timer.armed)
    /\ [][ AutoSaveTimeout =>
             IF NonBlank(timer)
             THEN /\ Len(reqs') = Len(reqs) + 1
                  /\ SubSeq(reqs', 1, Len(reqs)) = reqs
                  /\ reqs'[Len(reqs')].src = "editor"
                  /\ ~reqs'[Len(reqs')].showToast
                  /\ reqs'[Len(reqs')].data = noteData(TimerClosure)
                  /\ ed'.saving
                  /\ ~timer'.armed
             ELSE /\ reqs' = reqs
                  /\ ~timer'.armed ]_vars

(* the save the expired timeout issued is in flight *)
C3_Witness ==
    /\ showEditor
    /\ ed.saving
    /\ ~timer.armed
    /\ \E i \in LiveEditorWrites :
          ~reqs[i].showToast /\ reqs[i].data.content # <<>>

(* C4: the mounted editor awaits at most one write at a time; saving is true
   exactly while it does, no timeout is pending meanwhile, and no step taken
   while saving adds a write of the editor. *)
C4_OneSaveInFlight ==
    /\ [](/\ Cardinality(LiveEditorWrites) <= 1
          /\ ed.saving <=> LiveEditorWrites # {}
          /\ ed.saving => ~timer.armed)
    /\ [][ (ed.saving /\ Len(reqs') > Len(reqs)) =>
             reqs'[Len(reqs')].src # "editor" ]_vars

(* an explicit save is in flight next to the write of an editor instance
   that was closed meanwhile *)
C4_Witness ==
    /\ ed.saving
    /\ \E i \in LiveEditorWrites : reqs[i].showToast
    /\ \E j \in 1..Len(reqs) : reqs[j].src = "editor" /\ ~reqs[j].live

(* C5 as stated: every change of title, content, tags or favorite flag that
   leaves the editor dirty, with no save in flight, sets the timeout anew
   with the full delay. *)
C5_Original ==
    [][ ( /\ showEditor
          /\ ed.hasUnsavedChanges /\ ed'.hasUnsavedChanges
          /\ ~ed.saving /\ ~ed'.saving
          /\ selectedNoteId' = selectedNoteId
          /\ notes' = notes
          /\ Fields(ed') # Fields(ed) )
        => /\ timer'.armed
           /\ timer'.remaining = AutoSaveDelay ]_vars

(* C6 as stated, for an editor that shows a stored note: it has unsaved
   changes exactly when title, content, tags or favorite flag differ from
   that note. *)
C6_Original ==
    (showEditor /\ HasCurrentNote(selectedNoteId, notes)) =>
        (ed.hasUnsavedChanges <=> Fields(ed) # Snapshot)

(* C7 as stated: when the write of a save the editor awaits succeeds, and
   the editor still shows what the save was for, the editor has no unsaved
   changes and what has been written is what its title, content, tags and
   favorite flag would write now. *)
C7_Original ==
    [][ \A i \in LiveEditorWrites :
          ( /\ WriteSucceeds(i)
            /\ reqs[i].id = Target )
          => /\ ~ed'.hasUnsavedChanges
             /\ noteData(ed') = reqs[i].data ]_vars

(* C8 as stated: the delay a pending timeout was set with is the profile's
   autosave interval, in milliseconds. *)
C8_Original ==
    (timer.armed /\ profile.exists) =>
        timer.delay = profile.auto_save_interval * 1000

(* C9: a step that takes the shown, dirty editor to another note or to
   create-new mode issues no write, clears the pending timeout, and leaves
   the editor clean with the fields of the note it now shows (empty fields
   in create-new mode); a pending timeout is always one set for the note
   the editor shows now, so none set before the switch fires after it. *)
C9_SwitchDiscardsDraft ==
    /\ [](timer.armed => (showEditor /\ timer.noteId = Target))
    /\ [][ ( /\ showEditor /\ showEditor'
             /\ selectedNoteId' # selectedNoteId
             /\ ed.hasUnsavedChanges )
           => /\ reqs' = reqs
              /\ notes' = notes
              /\ timer' = NoTimer
              /\ ~ed'.hasUnsavedChanges
              /\ Fields(ed') =
                   IF HasCurrentNote(selectedNoteId', notes')
                   THEN Fields(CurrentNote(selectedNoteId', notes'))
                   ELSE Fields(InitialEd) ]_vars

(* a dirty draft of a stored note with its timeout partly elapsed, another
   note to switch to *)
C9_Witness ==
    /\ showEditor
    /\ HasCurrentNote(selectedNoteId, notes)
    /\ Len(notes) > 1
    /\ ed.hasUnsavedChanges
    /\ Fields(ed) # Snapshot
    /\ timer.armed
    /\ timer.remaining < AutoSaveDelay

(* a step that opens the editor or takes it to another note *)
Opens ==
    /\ showEditor'
    /\ ~showEditor \/ selectedNoteId' # selectedNoteId

OpensClean ==
    Opens => /\ ~ed'.hasUnsavedChanges
             /\ Fields(ed') =
                  IF HasCurrentNote(selectedNoteId', notes')
                  THEN Fields(CurrentNote(selectedNoteId', notes'))
                  ELSE Fields(InitialEd)

(* a change of title or content in a clean, empty create-new editor *)
FirstKeystroke ==
    /\ showEditor /\ selectedNoteId = NullId /\ selectedNoteId' = NullId
    /\ ~ed.hasUnsavedChanges
    /\ Fields(ed) = Fields(InitialEd)
    /\ ed'.title # ed.title \/ ed'.content # ed.content

(* C10 as stated: opening leaves the editor clean with the note's fields, or
   empty in create-new mode, and the first change of title or content in
   create-new mode makes it dirty. *)
C10_Original ==
    [][ /\ OpensClean
        /\ FirstKeystroke => ed'.hasUnsavedChanges ]_vars

(* C10, amended: opening leaves the editor clean with the note's fields, or
   empty in create-new mode; the first change of title or content in
   create-new mode makes it dirty exactly when the title or the content it
   leaves is not blank. *)
C10_OpenCleanThenDirty ==
    [][ /\ OpensClean
        /\ FirstKeystroke => (ed'.hasUnsavedChanges <=> NonBlank(ed')) ]_vars

(* create-new mode after a blank typed into the title: still clean *)
C10_Witness ==
    /\ showEditor
    /\ selectedNoteId = NullId
    /\ ed.title = <<" ">>
    /\ ed.content = <<>>
    /\ ~ed.hasUnsavedChanges
    /\ notes # <<>>

(* the write of an addNote succeeds in this step *)
AddNoteSucceeds(i) ==
    i \in 1..Len(reqs) /\ reqs[i].op = "addNote" /\ WriteSucceeds(i)

(* C11 as stated: when the write of addNote(N) succeeds, the notes are the
   new note followed by the notes as they were; the new note has N's title,
   content, tags and favorite flag, an id that is not empty and that no
   other note has, and createdAt equal to updatedAt. *)
C11_Original ==
    [][ \A i \in 1..Len(reqs) :
          AddNoteSucceeds(i) =>
              /\ Len(notes') = Len(notes) + 1
              /\ Tail(notes') = notes
              /\ Head(notes').title = reqs[i].data.title
              /\ Head(notes').content = reqs[i].data.content
              /\ Head(notes').tags = reqs[i].data.tags
              /\ Head(notes').isFavorite = reqs[i].data.isFavorite
              /\ Head(notes').id # NullId
              /\ \A k \in 1..Len(notes) : notes[k].id # Head(notes').id
              /\ Head(notes').createdAt = Head(notes').updatedAt ]_vars

(* the write of an updateNote succeeds in this step *)
UpdateNoteSucceeds(i) ==
    i \in 1..Len(reqs) /\ reqs[i].op = "updateNote" /\ WriteSucceeds(i)

(* C12 as stated, with "not smaller" for "strictly greater": when the write
   of updateNote(id, U) succeeds for a note the store holds, every other
   note is unchanged, every field of the note that U names has U's value,
   every other field but updatedAt is unchanged, and updatedAt is not
   smaller than before. *)
C12_Original ==
    [][ \A i \in 1..Len(reqs) :
          (UpdateNoteSucceeds(i) /\ NoteIndex(reqs[i].id, notes) # 0) =>
              LET k == NoteIndex(reqs[i].id, notes)
                  U == reqs[i].data
              IN /\ Len(notes') = Len(notes)
                 /\ \A j \in 1..Len(notes) : j # k => notes'[j] = notes[j]
                 /\ \A f \in DOMAIN notes[k] \ {"updatedAt"} :
                       notes'[k][f] = IF f \in DOMAIN U THEN U[f]
                                      ELSE notes[k][f]
                 /\ notes'[k].updatedAt >= notes[k].updatedAt ]_vars

(* the rows of public.notes the session's user may read *)
OwnRows == {k \in 1..Len(db) : Visible(db[k], user)}

(* note n is row r as the store reads it *)
IsRow(n, r) ==
    /\ n.id = r.id
    /\ n.title = r.title
    /\ n.content = r.content
    /\ n.tags = r.tags
    /\ n.isFavorite = r.is_favorite
    /\ n.folderId = r.folder_id
    /\ n.createdAt = r.created_at
    /\ n.updatedAt = r.updated_at

(* C13: a fetchNotes that succeeds leaves as the store's notes exactly the
   rows the remote store holds for the session's user, each once and with
   the row's values, in descending order of updatedAt, whatever the notes
   were before; a fetchNotes that fails leaves notes, tags and lastSync as
   they were; both leave isLoading false. *)
C13_FetchOverwrites ==
    [][ \A i \in 1..Len(reqs) :
          /\ FetchNotesDone(i, TRUE) =>
                /\ Len(notes') = Cardinality(OwnRows)
                /\ \A k \in OwnRows :
                      \E j \in 1..Len(notes') : IsRow(notes'[j], db[k])
                /\ \A j, k \in 1..Len(notes') :
                      j < k => notes'[j].updatedAt >= notes'[k].updatedAt
                /\ ~isLoading'
          /\ FetchNotesDone(i, FALSE) =>
                /\ notes' = notes
                /\ tags' = tags
                /\ lastSync' = lastSync
                /\ ~isLoading' ]_vars

(* fetched notes in an order no local change produces: the note added first
   stands first, being the one updated last *)
C13_Witness ==
    /\ lastSync.set
    /\ Len(notes) = 2
    /\ notes[1].id = NoteIdPool[1]
    /\ notes[1].updatedAt > notes[2].updatedAt

(* C14: after a fetchNotes that succeeds, the tags are exactly the tags the
   fetched notes carry, each once. *)
C14_TagIndexAfterFetch ==
    [][ \A i \in 1..Len(reqs) :
          FetchNotesDone(i, TRUE) =>
              /\ Elems(tags') =
                   UNION {Elems(notes'[j].tags) : j \in 1..Len(notes')}
              /\ Len(tags') = Cardinality(Elems(tags')) ]_vars

(* fetched notes and a tag index that lost the tag every note was added
   with *)
C14_Witness ==
    /\ lastSync.set
    /\ notes # <<>>
    /\ tags = <<"u">>

(* the write of a deleteNote succeeds in this step *)
DeleteNoteSucceeds(i) ==
    i \in 1..Len(reqs) /\ reqs[i].op = "deleteNote" /\ WriteSucceeds(i)

(* C15: a step that is no successful fetchNotes keeps every tag of the
   index, in place; a successful addNote or updateNote leaves the index
   holding what it held and the tags written, a successful deleteNote
   leaves it as it was. *)
C15_TagIndexGrows ==
    [][ /\ (\A i \in 1..Len(reqs) : ~FetchNotesDone(i, TRUE)) =>
              /\ Len(tags') >= Len(tags)
              /\ SubSeq(tags', 1, Len(tags)) = tags
        /\ \A i \in 1..Len(reqs) :
              /\ AddNoteSucceeds(i) =>
                    Elems(tags') = Elems(tags) \cup Elems(reqs[i].data.tags)
              /\ UpdateNoteSucceeds(i) =>
                    Elems(tags') = Elems(tags) \cup
                        (IF "tags" \in DOMAIN reqs[i].data
                         THEN Elems(reqs[i].data.tags) ELSE {})
              /\ DeleteNoteSucceeds(i) => tags' = tags ]_vars

(* never fetched, a note was deleted, and the index holds a tag that no
   note left carries *)
C15_Witness ==
    /\ ~lastSync.set
    /\ notes # <<>>
    /\ \E k \in 1..Len(db) : db[k].deleted
    /\ \E t \in Elems(tags) :
          \A j \in 1..Len(notes) : t \notin Elems(notes[j].tags)

(* the store holds what a fetchNotes of the remote rows as they are leaves:
   the case of a fetch that succeeded with no remote change since *)
HoldsFetched ==
    /\ lastSync.set
    /\ notes = [k \in 1..Len(SelectNotes) |-> NoteOfRow(SelectNotes[k])]
    /\ tags = Dedupe(FlatTags(notes))

(* C16: a fetchNotes that succeeds when the store holds the result of a
   successful fetch, the remote rows not having changed since, leaves the
   same notes in the same order and the same tag index. *)
C16_FetchTwice ==
    [][ \A i \in 1..Len(reqs) :
          (HoldsFetched /\ FetchNotesDone(i, TRUE)) =>
              /\ notes' = notes
              /\ tags' = tags ]_vars

(* a fetch has succeeded, the store holds its two notes and their tags,
   and the next fetchNotes is awaiting its answer *)
C16_Witness ==
    /\ HoldsFetched
    /\ Len(notes) = 2
    /\ tags # <<>>
    /\ \E i \in 1..Len(reqs) : reqs[i].op = "fetchNotes"

(* the user a remote row belongs to *)
NoteOwner(id) ==
    LET k == CHOOSE k \in 1..Len(db) : db[k].id = id IN db[k].user_id

FolderOwner(id) ==
    LET k == CHOOSE k \in 1..Len(dbFolders) : dbFolders[k].id = id
    IN dbFolders[k].user_id

(* C17: with a user signed in and the fetch of the list settled, every note
   and every folder the store holds is a row of that user. *)
C17_Original ==
    (user # NullUser /\ \A i \in 1..Len(reqs) : reqs[i].op # "fetchNotes") =>
        /\ \A k \in 1..Len(notes) : NoteOwner(notes[k].id) = user
        /\ \A k \in 1..Len(folders) : FolderOwner(folders[k].id) = user

MutatingOps ==
    {"addNote", "updateNote", "deleteNote",
     "addFolder", "updateFolder", "deleteFolder"}

(* C18: with no session, no call of a mutating operation sends a write,
   and no write of one succeeds, so that the store stays as it is and the
   caller's promise is not resolved. *)
C18_Original ==
    [][ user = NullUser =>
          /\ (Len(reqs') > Len(reqs)
              /\ reqs'[Len(reqs')].op \in MutatingOps) =>
                 reqs'[Len(reqs')].stage # "write"
          /\ \A i \in 1..Len(reqs) :
                (reqs[i].op \in MutatingOps /\ WriteSucceeds(i)) =>
                    /\ UNCHANGED storeVars
                    /\ settled'.status # "resolved" ]_vars

FailureToasts == {"Save Failed", "Sync Failed", "Error"}

(* C19: the step in which the failure of a remote operation reaches the
   user interface shows a failure notification and no success
   notification: the last select of a sync, the write of the profile, a
   save of the editor. *)
C19_Original ==
    [][ \A i \in 1..Len(reqs) :
          /\ (reqs[i].src = "sync" /\ FetchFoldersDone(i, FALSE)) =>
                toast' = "Sync Failed"
          /\ UpdateProfileDone(i, FALSE) => toast' \in FailureToasts
          /\ (reqs[i].src = "editor" /\ reqs[i].live /\ WriteFails(i)) =>
                toast' \in FailureToasts ]_vars

(* the write of a deleteFolder succeeds in this step *)
DeleteFolderSucceeds(i) ==
    i \in 1..Len(reqs) /\ reqs[i].op = "deleteFolder" /\ WriteSucceeds(i)

(* C20: when deleteFolder(F) succeeds the store keeps all its notes, and
   every note that was filed in F is filed in no folder afterwards. *)
C20_Original ==
    [][ \A i \in 1..Len(reqs) :
          DeleteFolderSucceeds(i) =>
              /\ Len(notes') = Len(notes)
              /\ \A k \in 1..Len(notes) :
                    /\ notes'[k].id = notes[k].id
                    /\ notes[k].folderId = reqs[i].id =>
                          notes'[k].folderId = NullId ]_vars

(* the same letter, in either case *)
SameLetter(c, d) ==
    \/ c = d
    \/ {c, d} = {"a", "A"}
    \/ {c, d} = {"b", "B"}

(* q occurs in s at some position, case disregarded *)
ContainsIgnoringCase(s, q) ==
    \E i \in 0..(Len(s) - Len(q)) :
        \A j \in 1..Len(q) : SameLetter(s[i + j], q[j])

Shown(n) ==
    /\ ContainsIgnoringCase(n.title, searchQuery)
       \/ ContainsIgnoringCase(n.content, searchQuery)
    /\ selectedTag # NullTag => \E k \in 1..Len(n.tags) : n.tags[k] = selectedTag

(* C21: the list shows, each once, exactly the notes whose title or
   content contains the query, case disregarded, and which carry the
   selected tag if one is selected; with no query and no tag it shows
   every note. *)
C21_ListFilter ==
    /\ Elems(filteredNotes) = {n \in Elems(notes) : Shown(n)}
    /\ Len(filteredNotes) = Cardinality(Elems(filteredNotes))
    /\ (searchQuery = <<>> /\ selectedTag = NullTag) =>
           Elems(filteredNotes) = Elems(notes)

(* query 'A' and tag 't': a note titled 'a' is shown for the query, some
   note of the store is not shown, and some note matches the query alone *)
C21_Witness ==
    /\ searchQuery = <<"A">>
    /\ selectedTag = "t"
    /\ \E k \in 1..Len(filteredNotes) : filteredNotes[k].title = <<"a">>
    /\ \E k \in 1..Len(notes) :
          /\ ContainsIgnoringCase(notes[k].title, searchQuery)
          /\ notes[k] \notin Elems(filteredNotes)

(* C22: with sort key favorite no note that is not a favorite is listed
   before a favorite, and two notes with the same flag are listed in the
   order the store holds them in. *)
C22_Original ==
    sortBy = "favorite" =>
        \A i, j \in 1..Len(filteredNotes) :
            i < j =>
                /\ filteredNotes[j].isFavorite => filteredNotes[i].isFavorite
                /\ filteredNotes[i].isFavorite = filteredNotes[j].isFavorite
                      => NoteIndex(filteredNotes[i].id, notes)
                             < NoteIndex(filteredNotes[j].id, notes)

(* C23: with sort key date no note is listed before one updated later, with
   sort key title no note is listed before one whose title localeCompare
   puts first; either way the list holds the notes the filter keeps, each
   once. *)
C23_DateAndTitleOrder ==
    /\ sortBy = "date" =>
          \A i, j \in 1..Len(filteredNotes) :
              i < j => filteredNotes[i].updatedAt >= filteredNotes[j].updatedAt
    /\ sortBy = "title" =>
          \A i, j \in 1..Len(filteredNotes) :
              i < j => localeCompare(filteredNotes[i].title,
                                     filteredNotes[j].title) <= 0
    /\ sortBy \in {"date", "title"} =>
          /\ Elems(filteredNotes) = {n \in Elems(notes) : Shown(n)}
          /\ Len(filteredNotes) = Cardinality({n \in Elems(notes) : Shown(n)})

(* sorted by date with a query typed, three notes listed, the store's
   first note, updated before another, is not the first of the list *)
C23_Witness ==
    /\ sortBy = "date"
    /\ searchQuery = <<"A">>
    /\ Len(filteredNotes) = 3
    /\ filteredNotes[1] # notes[1]
    /\ notes[1].updatedAt < filteredNotes[1].updatedAt

(* C24: a render of the list for a new query or tag, and a call of
   searchNotes, leave the store's notes as they are, in their order. *)
C24_ViewLeavesStore ==
    [][ /\ \A q \in QueryValues :
              (setSearchQuery(q) \/ CallSearchNotes(q)) => notes' = notes
        /\ \A t \in {NullTag} \cup TagValues :
              setSelectedTag(t) => notes' = notes ]_vars

(* a query typed and searchNotes called: the list drops a note of the
   store and begins with another note than the store does *)
C24_Witness ==
    /\ searchQuery # <<>>
    /\ settled.op = "searchNotes"
    /\ filteredNotes # <<>>
    /\ Len(filteredNotes) < Len(notes)
    /\ filteredNotes[1] # notes[1]

(* C25: an export as Markdown hands over '# ', the title, two line breaks
   and the content, as the editor holds them; an export in any form adds no
   request and leaves the editor's fields, its flags, its timer and the
   store as they are. *)
C25_Export ==
    [][ \A f \in ExportFormats :
          handleExport(f) =>
              /\ f = "md" =>
                    download'.content =
                        <<"#", " ">> \o ed.title \o <<"\n", "\n">> \o ed.content
              /\ reqs' = reqs
              /\ ed' = ed
              /\ timer' = timer
              /\ UNCHANGED <<notes, folders, tags, db, dbFolders>> ]_vars

(* a stored note, edited and not yet saved, exported as Markdown *)
C25_Witness ==
    /\ download.saved
    /\ download.content = <<"#", " ", "a", "\n", "\n", "c">>
    /\ ed.hasUnsavedChanges
    /\ timer.armed
    /\ selectedNoteId # NullId

(* C26: a save issued from an editor whose title is blank writes the
   placeholder as title, and no note, in the store or in the remote table,
   has a blank title. *)
C26_Original ==
    /\ \A i \in 1..Len(reqs) :
          (reqs[i].src = "editor" /\ "title" \in DOMAIN reqs[i].data) =>
              Trim(reqs[i].data.title) # <<>>
    /\ \A k \in 1..Len(notes) : Trim(notes[k].title) # <<>>
    /\ \A k \in 1..Len(db) : Trim(db[k].title) # <<>>

(* C27: while the user has a profile row no step issues the insert of
   createProfile, however the read of fetchProfile ended; the row
   createProfile inserts has the default interval. *)
C27_Original ==
    [][ /\ profile.exists =>
              \A i \in 1..Len(reqs') :
                  reqs'[i].op = "createProfile" =>
                      (i <= Len(reqs) /\ reqs[i].op = "createProfile")
        /\ \A i \in 1..Len(reqs) :
              CreateProfileDone(i, TRUE) =>
                  profile'.auto_save_interval = DefaultAutoSaveInterval ]_vars

(* C28: the answer of a fetchNotes whose select ran earlier is applied as it
   was read, whatever the store holds by then; and no step but a successful
   fetch or a successful write changes the notes of the store. *)
C28_FetchClobbers ==
    [][ /\ \A i \in 1..Len(reqs) :
              (reqs[i].stage = "answer" /\ FetchNotesDone(i, TRUE)) =>
                  notes' = [k \in 1..Len(reqs[i].data) |->
                               NoteOfRow(reqs[i].data[k])]
        /\ (\A i \in 1..Len(reqs) :
                ~FetchNotesDone(i, TRUE) /\ ~WriteSucceeds(i)) =>
               notes' = notes ]_vars

(* every request answered, the last fetch succeeded; the store holds a note
   as not favorite that the server holds as favorite *)
C28_Witness ==
    /\ reqs = <<>>
    /\ lastSync.set
    /\ \E k \in 1..Len(notes), j \in 1..Len(db) :
          /\ notes[k].id = db[j].id
          /\ ~notes[k].isFavorite
          /\ db[j].is_favorite

(* C29: when the success of an updateNote is applied, the note of the store
   takes the value written by that call for the field, whatever the server
   holds for it: of two overlapping calls the one applied last decides. *)
C29_LastAppliedWins ==
    [][ \A i \in 1..Len(reqs) :
          UpdateNoteSucceeds(i) =>
              \A k \in 1..Len(notes) :
                  notes[k].id = reqs[i].id =>
                      notes'[k].isFavorite = reqs[i].data.isFavorite ]_vars

(* no fetch yet, every request answered: the server holds the note as
   favorite, so the call that set the flag was applied to the store too,
   and the store holds it as not favorite, by a call answered later whose
   write the server applied earlier *)
C29_Witness ==
    /\ reqs = <<>>
    /\ ~lastSync.set
    /\ settled = [op |-> "updateNote", status |-> "resolved"]
    /\ \E k \in 1..Len(notes), j \in 1..Len(db) :
          /\ notes[k].id = db[j].id
          /\ ~notes[k].isFavorite
          /\ db[j].is_favorite

(* the calls of syncNotes that wait for the read named op *)
SyncsAwaiting(op) ==
    Cardinality({i \in 1..Len(reqs) :
                    reqs[i].op = op /\ reqs[i].src = "sync"})

SyncsAwaitingNext(op) ==
    Cardinality({i \in 1..Len(reqs') :
                    reqs'[i].op = op /\ reqs'[i].src = "sync"})

(* C30: syncNotes issues its folder read only in the step in which its note
   fetch finishes, with or without an error, and it completes, and the Sync
   button reports, only in a step in which its folder read finishes *)
C30_SyncInOrder ==
    [][ /\ SyncsAwaitingNext("fetchFolders") > SyncsAwaiting("fetchFolders")
            => /\ SyncsAwaitingNext("fetchNotes")
                     = SyncsAwaiting("fetchNotes") - 1
               /\ SyncsAwaitingNext("fetchFolders")
                     = SyncsAwaiting("fetchFolders") + 1
               /\ ~isLoading'
        /\ SyncsAwaitingNext("fetchNotes") < SyncsAwaiting("fetchNotes")
            => SyncsAwaitingNext("fetchFolders")
                   = SyncsAwaiting("fetchFolders") + 1
        /\ (toast' = "Sync Complete" /\ toast # "Sync Complete")
            => /\ SyncsAwaitingNext("fetchFolders")
                     = SyncsAwaiting("fetchFolders") - 1
               /\ SyncsAwaitingNext("fetchNotes")
                     = SyncsAwaiting("fetchNotes") ]_vars

(* a sync whose note fetch failed has gone on to the folder read and has
   completed *)
C30_Witness ==
    /\ toast = "Sync Complete"
    /\ reqs = <<>>
    /\ ~lastSync.set
    /\ ~isLoading

(* the editor stays mounted on the same note in this step *)
EditorStays ==
    /\ showEditor
    /\ showEditor'
    /\ selectedNoteId' = selectedNoteId

(* the draft's field f is still in the editor after the step, or the store
   holds what a save of it writes *)
DraftFieldSurvives(f) ==
    \/ ed'[f] = ed[f]
    \/ /\ HasCurrentNote(selectedNoteId, notes')
       /\ CurrentNote(selectedNoteId, notes')[f] = noteData(ed)[f]

(* C31: while the editor stays on the same note, a step in which a request
   of the store is answered (a save, a fetchNotes, another updateNote) keeps
   the title and the content of the draft, unless the store holds them *)
C31_Original ==
    [][ (EditorStays /\ Len(reqs') < Len(reqs))
            => DraftFieldSurvives("title") /\ DraftFieldSurvives("content")
      ]_vars

(* C32: an editor session in create-new mode creates at most one note: the
   saves after the first successful one update it, so the collection, local
   and remote, gains one note at most during the session *)
C32_Original ==
    /\ Len(notes) <= 1
    /\ Len(db) <= 1

(* the save the expired timeout issues in this step: handleSave(false) *)
AutoSaveIssued ==
    /\ Len(reqs') = Len(reqs) + 1
    /\ reqs'[Len(reqs')].src = "editor"
    /\ ~reqs'[Len(reqs')].showToast

(* C33: the write the expired timeout issues carries the title, content,
   tags and favorite flag the editor holds when it expires *)
C33_Original ==
    [][ AutoSaveIssued => reqs'[Len(reqs')].data = noteData(ed) ]_vars

(* C34: no two notes of the local collection have the same id *)
C34_Original ==
    \A i, j \in 1..Len(notes) : notes[i].id = notes[j].id => i = j

(* the answer of a fetchNotes is applied in this step *)
FetchApplied ==
    \E i \in 1..Len(reqs) :
        reqs[i].op = "fetchNotes" /\ reqs' = RemoveAt(reqs, i)

(* a deleteNote(id) has succeeded: the server holds the row as deleted *)
RowDeleted(id) ==
    \E j \in 1..Len(db) : db[j].id = id /\ db[j].deleted

(* C35: the notes whose deleteNote succeeded are not in the local
   collection, and the answer of a fetchNotes does not bring one back *)
C35_Original ==
    [][ (FetchApplied /\ \A k \in 1..Len(notes) : ~RowDeleted(notes[k].id))
            => \A k \in 1..Len(notes') : ~RowDeleted(notes'[k].id) ]_vars

(* C36: every tag carried by a note of the local collection is in the tag
   index *)
C36_IndexCoversNotes ==
    \A k \in 1..Len(notes) :
        \A j \in 1..Len(notes[k].tags) : Includes(tags, notes[k].tags[j])

(* after a fetch and an update of a note's tags: the note carries the new
   tag, and the index also holds a tag no note carries any more *)
C36_Witness ==
    /\ lastSync.set
    /\ \E k \in 1..Len(notes) : Includes(notes[k].tags, "u")
    /\ \E j \in 1..Len(tags) :
          \A k \in 1..Len(notes) : ~Includes(notes[k].tags, tags[j])

(* the save the editor awaits is answered with an error in this step *)
EditorSaveFails ==
    \E i \in 1..Len(reqs) :
        /\ reqs[i].src = "editor"
        /\ reqs[i].live
        /\ reqs' = RemoveAt(reqs, i)
        /\ toast' = "Save Failed"

(* C37: with a remote store that answers, an editor that is saving is not
   saving any more at some later moment; the step in which a save fails
   leaves the editor not saving, so that handleSave is not blocked *)
C37_SavingEnds ==
    /\ (showEditor /\ ed.saving) ~> ~ed.saving
    /\ [][ (showEditor /\ ed.saving /\ EditorSaveFails) => ~ed'.saving ]_vars

(* a save failed, and the editor is saving again *)
C37_Witness ==
    /\ showEditor
    /\ toast = "Save Failed"
    /\ ed.saving
    /\ \E i \in 1..Len(reqs) : reqs[i].src = "editor" /\ reqs[i].live

====
